---- MODULE Spec2Model ----
(***************************************************************************)
(* Model of the PCIe enumeration engine of drivercraft/pcie                *)
(* (src/src/root.rs: RootComplex, PciIterator, Bridge).                    *)
(*                                                                         *)
(* The hardware is a tree of PCI functions.  A configuration access to     *)
(* (bus, device, function) is routed as PCI routes it: the host answers    *)
(* for its root bus, and a bridge forwards an access whose bus lies in     *)
(* the window [secondary, subordinate] held in its register 0x18.          *)
(* The engine is the state machine of PciIterator; one action is one turn  *)
(* of the loop of Iterator::next.                                          *)
(***************************************************************************)
EXTENDS Integers, Sequences, FiniteSets, TLC

\* ------------------------------------------------------------------------
\* Program constants (src/src/root.rs)
MAX_DEVICE == 31
MAX_FUNCTION == 7

\* ------------------------------------------------------------------------
\* Bounds of the model
\* at most this many functions are present in a topology
MaxNodes == 3
\* functions 0..MaxPopFn of the first device of a bus may be present, and
\* function 0 of its last device
MaxPopFn == 1
\* the calls made: << range.start, range.end, do_allocate >>, that is
\* enumerate(None), enumerate_keep_bar(Some(0..2)), enumerate(Some(1..3))
Calls == { <<0, 256, TRUE>>, <<0, 2, FALSE>>, <<1, 3, TRUE>> }

U8 == 256

\* ------------------------------------------------------------------------
\* Hardware: the tree of functions
\* A function sits at a path: the <<device, function>> slots from the root
\* bus down to it.  topo maps the path of every present function to its
\* header-type byte: type (low 7 bits) and multi (bit 7).
Slots == ({0} \X (0..MaxPopFn)) \cup { <<MAX_DEVICE, 0>> }
HeaderTypes == {"Endpoint", "PciPciBridge"}
HeaderBytes == [type : HeaderTypes, multi : BOOLEAN]

EmptyTopo == [p \in {} |-> [type |-> "Endpoint", multi |-> FALSE]]

BridgePaths(t) == { p \in DOMAIN t : t[p].type = "PciPciBridge" }
EndpointPaths(t) == { p \in DOMAIN t : t[p].type = "Endpoint" }

\* every way of plugging one more function into topology t
AddNode(t) ==
    { t @@ (Append(pp, s) :> h) :
        pp \in { q \in BridgePaths(t) \cup {<<>>} : TRUE },
        s \in { x \in Slots : TRUE },
        h \in HeaderBytes }

RECURSIVE Grow(_, _)
Grow(T, n) ==
    IF n = 0 THEN T
    ELSE Grow(T \cup UNION { { u \in AddNode(t) : Cardinality(DOMAIN u) > Cardinality(DOMAIN t) } : t \in T }, n - 1)

Topologies == Grow({EmptyTopo}, MaxNodes)


\* ------------------------------------------------------------------------
\* State
VARIABLES
    topo,                   \* hardware: the present functions (never changes)
    reg,                    \* hardware: register 0x18 of every bridge, by path
    bus_start,              \* range.start handed to __enumerate; the host's root bus
    bus_max,                \* PciIterator.bus_max
    do_allocate,            \* PciIterator.do_allocate
    stack,                  \* PciIterator.stack
    function,               \* PciIterator.function
    is_mulitple_function,   \* PciIterator.is_mulitple_function
    is_finish,              \* PciIterator.is_finish
    pc,                     \* "idle": between calls of Iterator::next; "loop": inside one
    ret,                    \* what the last call of Iterator::next returned
    probes,                 \* history: the ECAM offsets whose vendor ID was read
    nprobes,                \* history: how many vendor-ID reads were made
    lastProbe,              \* history: the last vendor-ID read and what answered
    yielded,                \* history: the endpoints returned, in order
    accepted,               \* history: the bridges programmed and pushed, in order
    cfg,                    \* hardware: command and BAR registers of every endpoint, by path
    allocator,              \* RootComplex.allocator: Some(SimpleBarAllocator) or None
    requests,               \* history: the calls made on the allocator, in order
    wlog,                   \* history: the configuration writes made, in order
    ecam,                   \* the words of the ECAM window written through PcieGeric, by byte offset
    access,                 \* history: the accesses made through PcieGeric, in order
    first,                  \* history: what the run before this one yielded and left in the bridges
    rmw                     \* the read-modify-write each agent has in flight on the ECAM window

vars == << topo, reg, bus_start, bus_max, do_allocate, stack, function,
           is_mulitple_function, is_finish, pc, ret, probes, nprobes,
           lastProbe, yielded, accepted, cfg, allocator, requests, wlog,
           ecam, access, first, rmw >>

\* the registers of endpoints, the allocator and the history of its calls
barvars == << cfg, allocator, requests >>

\* the ECAM window as PcieGeric is driven directly, the history of that, and
\* the read-modify-writes in flight on it
ecamvars == << ecam, access, rmw >>

BusNumber(p, s, b) == [primary |-> p, secondary |-> s, subordinate |-> b]
PciAddress(b, d, f) == [bus |-> b, device |-> d, function |-> f]
\* a function has a path of one slot or more: the empty path names none
NoFunction == << >>

\* no run has been completed on the root complex yet
NoRun == [done |-> FALSE, yielded |-> << >>, accepted |-> << >>, reg |-> << >>]

\* the agents that hold a clone of the PcieController: the thread that runs
\* the iterator, and a thread that holds a yielded descriptor
Agents == {"iterator", "thread"}

\* no agent has read a register it is about to write
NoRmw ==
    [a \in Agents |->
        [pc |-> "idle", address |-> PciAddress(0, 0, 0), offset |-> 0,
         f |-> "identity", latched |-> 0, stale |-> FALSE, done |-> 0]]

\* `|` and `<<` on u32; no value shifted here reaches 2^32
RECURSIVE BitOr(_, _)
BitOr(a, b) ==
    IF a = 0 THEN b
    ELSE IF b = 0 THEN a
    ELSE (IF a % 2 = 1 \/ b % 2 = 1 THEN 1 ELSE 0)
         + 2 * BitOr(a \div 2, b \div 2)

Shl(a, n) == a * 2^n

\* a slip: the device number is shifted by 14
mmio_addr_device14(addr, offset) ==
    (BitOr(BitOr(BitOr(Shl(addr.bus, 20), Shl(addr.device, 14)),
                 Shl(addr.function, 12)), offset) \div 4) * 4

\* PcieGeric::mmio_addr: the byte offset from the ECAM base of the word
\* accessed; the pointer is a *u32 advanced by `address >> 2` words
mmio_addr(addr, offset) ==
    (BitOr(BitOr(BitOr(Shl(addr.bus, 20), Shl(addr.device, 15)),
                 Shl(addr.function, 12)), offset) \div 4) * 4

\* ------------------------------------------------------------------------
\* Addresses and sizes of memory are counted in units of 16 bytes, the
\* granule of a memory BAR.
\* 2^32 bytes: what a u32 holds
U32 == 268435456

None == [some |-> FALSE, v |-> 0]
Some(x) == [some |-> TRUE, v |-> x]

Min(S) == CHOOSE x \in S : \A y \in S : x <= y
RECURSIVE IsPowerOfTwo(_)
IsPowerOfTwo(n) ==
    IF n <= 1 THEN n = 1 ELSE n % 2 = 0 /\ IsPowerOfTwo(n \div 2)

\* ------------------------------------------------------------------------
\* addr_alloc::AddressAllocator: first fit over [base, base + size)
\* used: the ranges reserved, as << start, length >>
AddressAllocator_new(base, size) ==
    IF size = 0 THEN None
    ELSE Some([base |-> base, end |-> base + size, used |-> {}])

align_up(a, align) == ((a + align - 1) \div align) * align

Overlaps(u, a, n) == a < u[1] + u[2] /\ u[1] < a + n

\* the starts allocate tries: the base and the end of every reserved range,
\* aligned up
candidates(al, align) ==
    {align_up(al.base, align)} \cup
    { align_up(u[1] + u[2], align) : u \in al.used }

\* those of the starts in cand where size fits in the window, clear of every
\* reserved range
fitting(al, size, cand) ==
    { a \in cand : /\ a + size <= al.end
                   /\ \A u \in al.used : ~Overlaps(u, a, size) }

\* the first of the starts in fit is reserved, or there is none
first_match(al, size, fit) ==
    IF fit = {} THEN << None, al >>
    ELSE << Some(Min(fit)),
            [al EXCEPT !.used = @ \cup { << Min(fit), size >> }] >>

\* allocate(size, alignment, FirstMatch): << Some(start) or None, allocator >>
allocate(al, size, align) ==
    IF size = 0 \/ ~IsPowerOfTwo(align) THEN << None, al >>
    ELSE first_match(al, size, fitting(al, size, candidates(al, align)))

\* ------------------------------------------------------------------------
\* bar_alloc::SimpleBarAllocator
SimpleBarAllocator_default ==
    [mem32 |-> None, mem64 |-> None, mem32_pref |-> None, mem64_pref |-> None]

PciSpace(address, size, prefetchable) ==
    [address |-> address, size |-> size, prefetchable |-> prefetchable]

\* set_mem32: << Ok, allocator >>
set_mem32(self, space) ==
    LET a == AddressAllocator_new(space.address, space.size)
    IN  IF ~a.some THEN << FALSE, self >>
        ELSE IF space.prefetchable
             THEN << TRUE, [self EXCEPT !.mem32_pref = a] >>
             ELSE << TRUE, [self EXCEPT !.mem32 = a] >>

\* set_mem64: << Ok, allocator >>
set_mem64(self, space) ==
    LET a == AddressAllocator_new(space.address, space.size)
    IN  IF ~a.some THEN << FALSE, self >>
        ELSE IF space.prefetchable
             THEN << TRUE, [self EXCEPT !.mem64_pref = a] >>
             ELSE << TRUE, [self EXCEPT !.mem64 = a] >>

\* the allocations below return << Some(address) or None, allocator, window >>;
\* window names the window that was asked, "none" if there was none

\* a slip: a window that could not serve a request is dropped
allocated_in_dropping(self, window, r, cast) ==
    IF ~r[1].some THEN << None, [self EXCEPT ![window] = None], window >>
    ELSE << Some(IF cast THEN r[1].v % U32 ELSE r[1].v),
            [self EXCEPT ![window] = Some(r[2])], window >>

\* `.ok()?` and the store of the window's new state, for the result r of
\* allocate on the window named window; cast: the start is cast to u32
allocated_in(self, window, r, cast) ==
    IF ~r[1].some THEN << None, self, window >>
    ELSE << Some(IF cast THEN r[1].v % U32 ELSE r[1].v),
            [self EXCEPT ![window] = Some(r[2])], window >>

\* a slip: the allocation is made with alignment 1
alloc_memory32_unaligned(self, size) ==
    IF ~self.mem32.some THEN << None, self, "none" >>
    ELSE allocated_in(self, "mem32", allocate(self.mem32.v, size, 1), TRUE)

\* alloc_memory32; the start is cast to u32
alloc_memory32(self, size) ==
    IF ~self.mem32.some THEN << None, self, "none" >>
    ELSE allocated_in(self, "mem32", allocate(self.mem32.v, size, size), TRUE)

alloc_memory64(self, size) ==
    IF ~self.mem64.some THEN << None, self, "none" >>
    ELSE allocated_in(self, "mem64", allocate(self.mem64.v, size, size), FALSE)

\* a slip: a prefetchable window that cannot serve the request falls through
\* to the non-prefetchable window
alloc_memory32_with_pref_fallthrough(self, size, prefetchable) ==
    IF /\ prefetchable /\ self.mem32_pref.some
       /\ allocate(self.mem32_pref.v, size, size)[1].some
    THEN allocated_in(self, "mem32_pref",
                      allocate(self.mem32_pref.v, size, size), TRUE)
    ELSE alloc_memory32(self, size)

alloc_memory32_with_pref(self, size, prefetchable) ==
    IF prefetchable /\ self.mem32_pref.some
    THEN allocated_in(self, "mem32_pref",
                      allocate(self.mem32_pref.v, size, size), TRUE)
    ELSE alloc_memory32(self, size)

alloc_memory64_with_pref(self, size, prefetchable) ==
    IF prefetchable /\ self.mem64_pref.some
    THEN allocated_in(self, "mem64_pref",
                      allocate(self.mem64_pref.v, size, size), FALSE)
    ELSE alloc_memory64(self, size)

\* ------------------------------------------------------------------------
\* Hardware: the configuration space of an endpoint
\* Its command register (the two decode bits) and its six BAR slots.  A slot
\* is unimplemented ("none"), a 32-bit memory BAR ("mem32"), the low half of
\* a 64-bit memory BAR ("mem64"), the high half of the 64-bit BAR in the
\* slot before it ("hi"), or an I/O BAR ("io").  lo is the address held in
\* the slot (for "io" the port); hi is the upper dword of a 64-bit BAR, kept
\* in its low slot.
Slot(kind, size, prefetchable, lo, hi) ==
    [kind |-> kind, size |-> size, prefetchable |-> prefetchable,
     lo |-> lo, hi |-> hi]

NoBar == Slot("none", 0, FALSE, 0, 0)
HiBar == Slot("hi", 0, FALSE, 0, 0)
NoBars == << NoBar, NoBar, NoBar, NoBar, NoBar, NoBar >>

EndpointRegs(io, mem, bars) ==
    [io_enable |-> io, memory_enable |-> mem, bars |-> bars]

\* a BAR as pci_types reports it; a 64-bit address is << hi, lo >>
Bar(kind, lo, hi, size, prefetchable) ==
    [kind |-> kind, lo |-> lo, hi |-> hi, size |-> size,
     prefetchable |-> prefetchable]

\* EndpointHeader::bar(slot): sizing of the slot (slots count from 0).  The
\* high half of a 64-bit BAR, read as a slot of its own, decodes by the low
\* bits of the upper dword; an upper dword with type bits 00 is a 32-bit
\* memory BAR of 16 bytes.
read_bar(bars, slot) ==
    LET s == bars[slot + 1]
    IN  CASE s.kind = "none" -> None
          [] s.kind = "mem32" ->
                Some(Bar("Memory32", s.lo, 0, s.size, s.prefetchable))
          [] s.kind = "mem64" ->
                Some(Bar("Memory64", s.lo, s.hi, s.size, s.prefetchable))
          [] s.kind = "io" -> Some(Bar("Io", s.lo, 0, 0, FALSE))
          [] s.kind = "hi" ->
                LET r == bars[slot].hi
                IN  IF r % 2 = 1 THEN Some(Bar("Io", r - (r % 4), 0, 0, FALSE))
                    ELSE IF (r \div 2) % 4 = 0
                    THEN Some(Bar("Memory32", r \div 16, 0, 1,
                                  (r \div 8) % 2 = 1))
                    ELSE None

\* EndpointHeader::write_bar(slot, value): << Ok, bars >>.  The hardware
\* keeps the address bits above the size of the BAR.
write_bar(bars, slot, value) ==
    LET b == read_bar(bars, slot)
        s == bars[slot + 1]
    IN  IF ~b.some THEN << FALSE, bars >>
        ELSE CASE b.v.kind = "Memory64" ->
                    << TRUE, [bars EXCEPT ![slot + 1].lo =
                                              (value % U32) - ((value % U32) % s.size),
                                          ![slot + 1].hi =
                                              IF s.size > U32
                                              THEN (value \div U32)
                                                   - ((value \div U32) % (s.size \div U32))
                                              ELSE value \div U32] >>
               [] b.v.kind = "Memory32" ->
                    IF value >= U32 THEN << FALSE, bars >>
                    ELSE IF s.kind = "hi"
                    THEN << TRUE, [bars EXCEPT ![slot].hi = value * 16] >>
                    ELSE << TRUE, [bars EXCEPT ![slot + 1].lo =
                                                   value - (value % s.size)] >>
               [] b.v.kind = "Io" ->
                    IF s.kind = "hi"
                    THEN << TRUE, [bars EXCEPT ![slot].hi = value * 16] >>
                    ELSE << TRUE, [bars EXCEPT ![slot + 1].lo = value] >>

\* ------------------------------------------------------------------------
\* types::bar: BarVec and BarHeader::parse_bar
BarVec(kind, data) == [kind |-> kind, data |-> data]

\* a slip: the BAR read is kept whatever its kind
same_kind_any(kind, b) == b

\* the entry of the vector for slot: the BAR read there if it is of kind
same_kind(kind, b) == IF b.some /\ b.v.kind = kind THEN b ELSE None

\* parse_bar, once BAR 0 has been read as bar0
parse_from(bars, bar0) ==
    IF ~bar0.some THEN BarVec("Memory32", << >>)
    ELSE IF bar0.v.kind = "Memory64"
    THEN BarVec("Memory64",
             [i \in 1..3 |-> same_kind("Memory64", read_bar(bars, (i - 1) * 2))])
    ELSE BarVec(bar0.v.kind,
             [i \in 1..6 |-> same_kind(bar0.v.kind, read_bar(bars, i - 1))])

\* parse_bar(6): the BARs of the kind of BAR 0
parse_bar(bars) == parse_from(bars, read_bar(bars, 0))

\* the slots parse_bar sizes, in order
parsed_slots(bars) ==
    LET bar0 == read_bar(bars, 0)
    IN  IF ~bar0.some THEN << 0 >>
        ELSE IF bar0.v.kind = "Memory64" THEN << 0, 2, 4 >>
        ELSE << 0, 1, 2, 3, 4, 5 >>

\* BarVecT<Bar32>::set / BarVecT<Bar64>::set: << Ok, bars >>
BarVec_set(kind, bars, index, value) ==
    IF kind = "Memory64" THEN write_bar(bars, index * 2, value)
    ELSE write_bar(bars, index, value)

\* ------------------------------------------------------------------------
\* History records: a configuration write of an endpoint register, and a
\* request made to the allocator.  path is the endpoint they were made for.
ConfigWrite(register, slot, why) ==
    [path |-> NoFunction, register |-> register, slot |-> slot, why |-> why]

Request(width, size, prefetchable, result, window) ==
    [path |-> NoFunction, width |-> width, size |-> size,
     prefetchable |-> prefetchable, result |-> result, window |-> window]

Tag(log, p) == [i \in 1..Len(log) |-> [log[i] EXCEPT !.path = p]]

\* ------------------------------------------------------------------------
\* types::config::Endpoint
\* the closure of realloc_bar's map, for one BAR of the vector:
\* << Some(address) or None, alloc, request >>
asked(width, size, prefetchable, r) ==
    << r[1], r[2], Request(width, size, prefetchable, r[1], r[3]) >>

alloc_for(kind, b, alloc) ==
    IF kind = "Memory32"
    THEN asked(32, b.size, b.prefetchable,
               alloc_memory32_with_pref(alloc, b.size, b.prefetchable))
    ELSE IF b.hi = 0 /\ b.lo > 0
    THEN asked(32, b.size % U32, b.prefetchable,
               alloc_memory32_with_pref(alloc, b.size % U32, b.prefetchable))
    ELSE asked(64, b.size, b.prefetchable,
               alloc_memory64_with_pref(alloc, b.size, b.prefetchable))

\* new_vals: the map over the vector from entry i on, stopped by the unwrap
\* of a None: [ok, allocator, vals, requests]; new_val is the step for an
\* entry that holds a BAR, r what alloc_for returned for it
RECURSIVE new_vals(_, _, _, _, _, _)
RECURSIVE new_val(_, _, _, _, _, _)
new_val(kind, data, i, vals, reqs, r) ==
    IF ~r[1].some
    THEN [ok |-> FALSE, allocator |-> r[2], vals |-> vals,
          requests |-> Append(reqs, r[3])]
    ELSE new_vals(kind, data, i + 1, r[2], Append(vals, r[1]),
                  Append(reqs, r[3]))

new_vals(kind, data, i, alloc, vals, reqs) ==
    IF i > Len(data)
    THEN [ok |-> TRUE, allocator |-> alloc, vals |-> vals, requests |-> reqs]
    ELSE IF ~data[i].some
    THEN new_vals(kind, data, i + 1, alloc, Append(vals, None), reqs)
    ELSE new_val(kind, data, i, vals, reqs, alloc_for(kind, data[i].v, alloc))

\* the loop over new_vals that programs the BARs, stopped by the unwrap of
\* an Err: [ok, bars, writes]; set_val is the step for an entry that holds
\* a value, w what BarVecT::set returned for it
RECURSIVE set_vals(_, _, _, _, _)
RECURSIVE set_val(_, _, _, _, _, _)
set_val(kind, bars, vals, i, writes, w) ==
    IF ~w[1] THEN [ok |-> FALSE, bars |-> bars, writes |-> writes]
    ELSE set_vals(kind, w[2], vals, i + 1,
                  Append(writes,
                         ConfigWrite("bar",
                                     IF kind = "Memory64" THEN (i - 1) * 2
                                     ELSE i - 1,
                                     "program")))

set_vals(kind, bars, vals, i, writes) ==
    IF i > Len(vals) THEN [ok |-> TRUE, bars |-> bars, writes |-> writes]
    ELSE IF ~vals[i].some THEN set_vals(kind, bars, vals, i + 1, writes)
    ELSE set_val(kind, bars, vals, i, writes,
                 BarVec_set(kind, bars, i - 1, vals[i].v))

\* the writes of sizing: every slot parse_bar reads is written all ones and
\* restored
size_writes(sl) == [i \in 1..Len(sl) |-> ConfigWrite("bar", sl[i], "size")]

sizing_writes(bars) == size_writes(parsed_slots(bars))

\* realloc_bar, the write loop done: s is what set_vals returned
realloc_set(quiet, n, s) ==
    [ok |-> s.ok, regs |-> [quiet EXCEPT !.bars = s.bars],
     allocator |-> n.allocator, requests |-> n.requests, writes |-> s.writes]

\* realloc_bar, new_vals collected: n is what new_vals returned; an unwrap
\* that failed in it is the panic
realloc_write(quiet, w0, bar, n) ==
    IF ~n.ok
    THEN [ok |-> FALSE, regs |-> quiet, allocator |-> n.allocator,
          requests |-> n.requests, writes |-> w0]
    ELSE realloc_set(quiet, n, set_vals(bar.kind, quiet.bars, n.vals, 1, w0))

\* realloc_bar, the BARs parsed: the match on the kind of the vector; w0 are
\* the writes made so far
realloc_match(quiet, alloc, bar, w0) ==
    IF bar.kind = "Io"
    THEN [ok |-> FALSE, regs |-> quiet, allocator |-> alloc,
          requests |-> << >>, writes |-> w0]
    ELSE realloc_write(quiet, w0, bar,
                       new_vals(bar.kind, bar.data, 1, alloc, << >>, << >>))

\* realloc_bar, the command register written: quiet is the endpoint after
realloc_parse(quiet, alloc) ==
    realloc_match(quiet, alloc, parse_bar(quiet.bars),
                  << ConfigWrite("command", 0, "quiesce") >>
                      \o sizing_writes(quiet.bars))

\* a slip: only IO_ENABLE is removed from the command register
realloc_bar_io_only(regs, alloc) ==
    realloc_parse([regs EXCEPT !.io_enable = FALSE], alloc)

\* Endpoint::realloc_bar: [ok, regs, allocator, requests, writes]; ~ok is a
\* panic, with what was done before it
realloc_bar(regs, alloc) ==
    realloc_parse([regs EXCEPT !.io_enable = FALSE, !.memory_enable = FALSE],
                  alloc)

\* Endpoint::new(base, bar_allocator): bar_allocator is Some(allocator) or
\* None
Endpoint_new(regs, bar_allocator) ==
    IF bar_allocator.some THEN realloc_bar(regs, bar_allocator.v)
    ELSE [ok |-> TRUE, regs |-> regs, allocator |-> bar_allocator.v,
          requests |-> << >>, writes |-> << >>]

\* ------------------------------------------------------------------------
\* Hardware: routing of a configuration access
\* The path of the bus that answers accesses addressed to `bus`, searched
\* from the bus numbered n below path p: <<TRUE, path>> or <<FALSE, _>>.
RECURSIVE RouteFrom(_, _, _, _)
RouteFrom(regs, p, n, bus) ==
    IF bus = n THEN <<TRUE, p>>
    ELSE LET fw == { q \in BridgePaths(topo) :
                        /\ Len(q) = Len(p) + 1
                        /\ SubSeq(q, 1, Len(p)) = p
                        /\ regs[q].secondary <= bus
                        /\ bus <= regs[q].subordinate }
         IN  IF fw = {} THEN <<FALSE, <<>> >>
             ELSE LET q == CHOOSE q \in fw : TRUE
                  IN  RouteFrom(regs, q, regs[q].secondary, bus)

\* the path of the function that answers at `addr`, or NoFunction
HwFunction(regs, addr) ==
    LET r == RouteFrom(regs, <<>>, bus_start, addr.bus)
        p == Append(r[2], <<addr.device, addr.function>>)
    IN  IF r[1] /\ p \in DOMAIN topo THEN p ELSE NoFunction

\* read of register 0x18; an absent function reads as 0xFFFFFFFF
Read18(regs, addr) ==
    LET p == HwFunction(regs, addr)
    IN  IF p \in BridgePaths(topo) THEN regs[p] ELSE BusNumber(255, 255, 255)

\* write of register 0x18; a write nothing answers is lost
Write18(regs, addr, v) ==
    LET p == HwFunction(regs, addr)
    IN  IF p \in BridgePaths(topo) THEN [regs EXCEPT ![p] = v] ELSE regs

\* ------------------------------------------------------------------------
\* config::PciPciBridge: the handle of a bridge held by a stack frame
\* The synthetic root holds its bus numbers itself; a real bridge holds its
\* address, and its bus numbers live in its register 0x18.
PciPciBridge_root(start) ==
    [root |-> TRUE, address |-> PciAddress(0, 0, 0),
     bus |-> BusNumber(start, start, start)]

PciPciBridge_new(addr) ==
    [root |-> FALSE, address |-> addr, bus |-> BusNumber(0, 0, 0)]

bus_numbers(regs, b) == IF b.root THEN b.bus ELSE Read18(regs, b.address)

primary_bus_number(regs, b) == bus_numbers(regs, b).primary
secondary_bus_number(regs, b) == bus_numbers(regs, b).secondary
subordinate_bus_number(regs, b) == bus_numbers(regs, b).subordinate

\* read-modify-write of the three bus numbers; `new` is what the closure
\* makes of the numbers read, bus_numbers(regs, b): << registers, handle >>
\* after
update_bus_number(regs, b, new) ==
    IF b.root THEN << regs, [b EXCEPT !.bus = new] >>
    ELSE << Write18(regs, b.address, new), b >>

\* ------------------------------------------------------------------------
\* Bridge: a frame of the stack
Bridge_root(start) == [bridge |-> PciPciBridge_root(start), device |-> start]

\* RootComplex::__enumerate: the iterator of a run over range start..end
Enumerate(start, end, alloc) ==
    [do_allocate |-> alloc,
     bus_max |-> (end - 1) % U8,
     function |-> 0,
     is_mulitple_function |-> FALSE,
     is_finish |-> FALSE,
     stack |-> << Bridge_root(start % U8) >>]

\* ------------------------------------------------------------------------
\* PciIterator: the engine.  `self` is the record of the iterator's fields.
Self ==
    [stack |-> stack, function |-> function,
     is_mulitple_function |-> is_mulitple_function, is_finish |-> is_finish]

Top(stk) == stk[Len(stk)]

address(regs, self) ==
    LET parent == Top(self.stack)
    IN  PciAddress(secondary_bus_number(regs, parent.bridge),
                   parent.device, self.function)

\* PciHeaderBase::new: None when the vendor ID reads 0xFFFF
PciHeaderBase_new(regs, addr) ==
    LET p == HwFunction(regs, addr)
    IN  IF p = NoFunction THEN [some |-> FALSE]
        ELSE [some |-> TRUE, address |-> addr,
              header_type |-> topo[p].type,
              has_multiple_functions |-> topo[p].multi]

\* a slip: a bridge that holds a wider window keeps its subordinate
program_bridge_keep_window(regs, self, addr) ==
    LET bridge == PciPciBridge_new(addr)
        primary_bus == addr.bus
        parent == Top(self.stack)
        parent_sub == subordinate_bus_number(regs, parent.bridge)
    IN  IF parent_sub = bus_max
        THEN [value |-> "None", self |-> self, regs |-> regs]
        ELSE
        LET secondary_bus == (parent_sub + 1) % U8
            Set(bus) == BusNumber(primary_bus, secondary_bus,
                                  IF bus.subordinate > secondary_bus
                                      /\ bus.subordinate <= bus_max
                                  THEN bus.subordinate ELSE secondary_bus)
            upd == update_bus_number(regs, bridge, Set(bus_numbers(regs, bridge)))
        IN  [value |-> "PciPciBridge", self |-> self,
             regs |-> upd[1], bridge |-> upd[2]]

\* a slip: the bus_max test compares with `>`, which no u8 satisfies
program_bridge_no_limit(regs, self, addr) ==
    LET bridge == PciPciBridge_new(addr)
        primary_bus == addr.bus
        parent == Top(self.stack)
        parent_sub == subordinate_bus_number(regs, parent.bridge)
        secondary_bus == (parent_sub + 1) % U8
        subordinate_bus == secondary_bus
        Set(bus) == BusNumber(primary_bus, secondary_bus, subordinate_bus)
        upd == update_bus_number(regs, bridge, Set(bus_numbers(regs, bridge)))
    IN  [value |-> "PciPciBridge", self |-> self,
         regs |-> upd[1], bridge |-> upd[2]]

\* a slip: the window is opened to the last bus when the bridge is found
program_bridge_open_window(regs, self, addr) ==
    LET bridge == PciPciBridge_new(addr)
        primary_bus == addr.bus
        parent == Top(self.stack)
        parent_sub == subordinate_bus_number(regs, parent.bridge)
    IN  IF parent_sub = bus_max
        THEN [value |-> "None", self |-> self, regs |-> regs]
        ELSE
        LET secondary_bus == (parent_sub + 1) % U8
            subordinate_bus == bus_max
            Set(bus) == BusNumber(primary_bus, secondary_bus, subordinate_bus)
            upd == update_bus_number(regs, bridge, Set(bus_numbers(regs, bridge)))
        IN  [value |-> "PciPciBridge", self |-> self,
             regs |-> upd[1], bridge |-> upd[2]]

\* get_current_valid, the PciPciBridge arm: the bridge found at addr is
\* refused when the parent's subordinate is bus_max, else programmed
program_bridge(regs, self, addr) ==
    LET bridge == PciPciBridge_new(addr)
        primary_bus == addr.bus
        parent == Top(self.stack)
        parent_sub == subordinate_bus_number(regs, parent.bridge)
    IN  IF parent_sub = bus_max
        THEN [value |-> "None", self |-> self, regs |-> regs]
        ELSE
        LET secondary_bus == (parent_sub + 1) % U8
            subordinate_bus == secondary_bus
            Set(bus) == BusNumber(primary_bus, secondary_bus, subordinate_bus)
            upd == update_bus_number(regs, bridge, Set(bus_numbers(regs, bridge)))
        IN  [value |-> "PciPciBridge", self |-> self,
             regs |-> upd[1], bridge |-> upd[2]]

\* a slip: the `?` on PciHeaderBase::new is lost, and what reads as all ones
\* is taken for an endpoint
get_current_valid_no_absence(regs, self) ==
    LET addr == address(regs, self)
        header_base == PciHeaderBase_new(regs, addr)
    IN  IF ~header_base.some
        THEN [value |-> "Endpoint", self |-> self, regs |-> regs]
        ELSE
        LET self1 == [self EXCEPT !.is_mulitple_function =
                                      header_base.has_multiple_functions]
        IN  IF header_base.header_type = "Endpoint"
            THEN [value |-> "Endpoint", self |-> self1, regs |-> regs]
            ELSE IF header_base.header_type = "PciPciBridge"
            THEN program_bridge(regs, self1, addr)
            ELSE [value |-> "todo", self |-> self1, regs |-> regs]

\* get_current_valid: [value, self, regs, bridge]; value is "None",
\* "Endpoint" (the descriptor is built by endpoint_arm), "PciPciBridge", or
\* "todo" for the panic of the CardBusBridge and Unknown arms
get_current_valid(regs, self) ==
    LET addr == address(regs, self)
        header_base == PciHeaderBase_new(regs, addr)
    IN  IF ~header_base.some
        THEN [value |-> "None", self |-> self, regs |-> regs]
        ELSE
        LET self1 == [self EXCEPT !.is_mulitple_function =
                                      header_base.has_multiple_functions]
        IN  IF header_base.header_type = "Endpoint"
            THEN [value |-> "Endpoint", self |-> self1, regs |-> regs]
            ELSE IF header_base.header_type = "PciPciBridge"
            THEN program_bridge(regs, self1, addr)
            ELSE [value |-> "todo", self |-> self1, regs |-> regs]

\* a slip: the allocator is handed over whatever the mode
endpoint_arm_any_mode(regs, alloc, mode) == Endpoint_new(regs, alloc)

\* get_current_valid, the Endpoint arm: the allocator of the root complex
\* is handed to Endpoint::new in allocate mode only
endpoint_arm(regs, alloc, mode) ==
    Endpoint_new(regs, IF mode THEN alloc ELSE None)

\* a slip: the multi-function flag is not consulted
is_next_function_max_ungated(self) ==
    IF self.function = MAX_FUNCTION
    THEN << [self EXCEPT !.function = 0], TRUE >>
    ELSE << [self EXCEPT !.function = self.function + 1], FALSE >>

\* a slip: the function number is not advanced
is_next_function_max_stuck(self) ==
    IF self.is_mulitple_function
    THEN IF self.function = MAX_FUNCTION
         THEN << [self EXCEPT !.function = 0], TRUE >>
         ELSE << self, FALSE >>
    ELSE << [self EXCEPT !.function = 0], TRUE >>

\* a slip: the wrap of the function number does not carry into the device
is_next_function_max_no_carry(self) ==
    IF self.is_mulitple_function
    THEN IF self.function = MAX_FUNCTION
         THEN << [self EXCEPT !.function = 0], FALSE >>
         ELSE << [self EXCEPT !.function = self.function + 1], FALSE >>
    ELSE << [self EXCEPT !.function = 0], TRUE >>

\* is_next_function_max: << self, carry >>
is_next_function_max(self) ==
    IF self.is_mulitple_function
    THEN IF self.function = MAX_FUNCTION
         THEN << [self EXCEPT !.function = 0], TRUE >>
         ELSE << [self EXCEPT !.function = self.function + 1], FALSE >>
    ELSE << [self EXCEPT !.function = 0], TRUE >>

\* a slip: after a pop the loop of next(None) is not asked for another turn
next_device_not_ok_pop_returns(regs, self) ==
    IF self.stack # << >>
    THEN LET parent == Top(self.stack)
         IN  IF parent.device = MAX_DEVICE
             THEN << [self EXCEPT
                        !.stack = SubSeq(self.stack, 1, Len(self.stack) - 1),
                        !.is_finish =
                            (subordinate_bus_number(regs, parent.bridge) = bus_max),
                        !.function = 0], FALSE >>
             ELSE << [self EXCEPT !.stack[Len(self.stack)].device =
                                      (parent.device + 1) % U8], FALSE >>
    ELSE << [self EXCEPT !.is_finish = TRUE], FALSE >>

\* a slip: the pop does not carry into the device number of the frame below
next_device_not_ok_pop_stays(regs, self) ==
    IF self.stack # << >>
    THEN LET parent == Top(self.stack)
         IN  IF parent.device = MAX_DEVICE
             THEN << [self EXCEPT
                        !.stack = SubSeq(self.stack, 1, Len(self.stack) - 1),
                        !.is_finish =
                            (subordinate_bus_number(regs, parent.bridge) = bus_max)
                            \/ Len(self.stack) = 1,
                        !.function = 0], FALSE >>
             ELSE << [self EXCEPT !.stack[Len(self.stack)].device =
                                      (parent.device + 1) % U8], FALSE >>
    ELSE << [self EXCEPT !.is_finish = TRUE], FALSE >>

\* a slip: the pop of a bridge's frame does not look at bus_max
next_device_not_ok_root_only(regs, self) ==
    IF self.stack # << >>
    THEN LET parent == Top(self.stack)
         IN  IF parent.device = MAX_DEVICE
             THEN << [self EXCEPT
                        !.stack = SubSeq(self.stack, 1, Len(self.stack) - 1),
                        !.is_finish = FALSE,
                        !.function = 0], TRUE >>
             ELSE << [self EXCEPT !.stack[Len(self.stack)].device =
                                      (parent.device + 1) % U8], FALSE >>
    ELSE << [self EXCEPT !.is_finish = TRUE], FALSE >>

\* a slip: the device number is not advanced
next_device_not_ok_stuck(regs, self) ==
    IF self.stack # << >>
    THEN LET parent == Top(self.stack)
         IN  IF parent.device = MAX_DEVICE
             THEN << [self EXCEPT
                        !.stack = SubSeq(self.stack, 1, Len(self.stack) - 1),
                        !.is_finish =
                            (subordinate_bus_number(regs, parent.bridge) = bus_max),
                        !.function = 0], TRUE >>
             ELSE << self, FALSE >>
    ELSE << [self EXCEPT !.is_finish = TRUE], FALSE >>

\* next_device_not_ok: << self, carry >>
next_device_not_ok(regs, self) ==
    IF self.stack # << >>
    THEN LET parent == Top(self.stack)
         IN  IF parent.device = MAX_DEVICE
             THEN << [self EXCEPT
                        !.stack = SubSeq(self.stack, 1, Len(self.stack) - 1),
                        !.is_finish =
                            (subordinate_bus_number(regs, parent.bridge) = bus_max),
                        !.function = 0], TRUE >>
             ELSE << [self EXCEPT !.stack[Len(self.stack)].device =
                                      (parent.device + 1) % U8], FALSE >>
    ELSE << [self EXCEPT !.is_finish = TRUE], FALSE >>

\* while self.next_device_not_ok() { spin_loop() }
RECURSIVE next_device_loop(_, _)
next_device_loop(regs, self) ==
    LET r == next_device_not_ok(regs, self)
    IN  IF r[2] THEN next_device_loop(regs, r[1]) ELSE r[1]

\* a slip: the secondary is incremented instead of the subordinate
IncSubordinate_secondary(bus) == [bus EXCEPT !.secondary = (bus.secondary + 1) % U8]

\* a slip: the window is left as it was
IncSubordinate_none(bus) == bus

\* the closure of next(Some(bridge)): bus.subordinate += 1
IncSubordinate(bus) == [bus EXCEPT !.subordinate = (bus.subordinate + 1) % U8]

\* a slip: the root frame is left out of the widening
RECURSIVE widen_stack_skip_root(_, _, _)
widen_stack_skip_root(regs, stk, i) ==
    IF i > Len(stk) THEN << regs, stk >>
    ELSE IF i = 1 THEN widen_stack_skip_root(regs, stk, 2)
    ELSE LET upd == update_bus_number(regs, stk[i].bridge,
                       IncSubordinate(bus_numbers(regs, stk[i].bridge)))
         IN  widen_stack_skip_root(upd[1], [stk EXCEPT ![i].bridge = upd[2]],
                                   i + 1)

\* a slip: only the frame of the bridge's parent is widened
widen_stack_top_only(regs, stk, i) ==
    LET upd == update_bus_number(regs, Top(stk).bridge,
                   IncSubordinate(bus_numbers(regs, Top(stk).bridge)))
    IN  << upd[1], [stk EXCEPT ![Len(stk)].bridge = upd[2]] >>

\* for parent in &mut self.stack { parent.bridge.update_bus_number(+1) }
\* from frame i upwards: << registers, stack >> after
RECURSIVE widen_stack(_, _, _)
widen_stack(regs, stk, i) ==
    IF i > Len(stk) THEN << regs, stk >>
    ELSE LET upd == update_bus_number(regs, stk[i].bridge,
                       IncSubordinate(bus_numbers(regs, stk[i].bridge)))
         IN  widen_stack(upd[1], [stk EXCEPT ![i].bridge = upd[2]], i + 1)

\* next(Some(bridge)): << self, registers >> after
next_bridge(regs, self, bridge) ==
    LET w == widen_stack(regs, self.stack, 1)
    IN  << [self EXCEPT
              !.stack = Append(w[2], [bridge |-> bridge, device |-> 0]),
              !.function = 0], w[1] >>

\* next(None): self after
next_none(regs, self) ==
    LET r == is_next_function_max(self)
    IN  IF r[2] THEN next_device_loop(regs, r[1]) ELSE r[1]

\* ------------------------------------------------------------------------
\* Initial state: a topology with every bridge register at its reset value,
\* and the iterator RootComplex::enumerate (do_allocate) or
\* RootComplex::enumerate_keep_bar (~do_allocate) returns for a bus range.
\* No BAR window is installed (RootComplex::new: allocator = None).
Init ==
    /\ topo \in Topologies
    /\ reg = [p \in BridgePaths(topo) |-> BusNumber(0, 0, 0)]
    /\ \E range \in Calls :
         LET it == Enumerate(range[1], range[2], range[3])
         IN  /\ bus_start = range[1]
             /\ bus_max = it.bus_max
             /\ do_allocate = it.do_allocate
             /\ stack = it.stack
             /\ function = it.function
             /\ is_mulitple_function = it.is_mulitple_function
             /\ is_finish = it.is_finish
    /\ pc = "idle"
    /\ ret = [tag |-> "none", address |-> PciAddress(0, 0, 0)]
    /\ probes = {}
    /\ nprobes = 0
    /\ lastProbe = [made |-> FALSE, address |-> PciAddress(0, 0, 0), path |-> NoFunction]
    /\ yielded = << >>
    /\ accepted = << >>
    /\ cfg = [p \in EndpointPaths(topo) |-> EndpointRegs(TRUE, TRUE, NoBars)]
    /\ allocator = None
    /\ requests = << >>
    /\ wlog = << >>
    /\ ecam = << >>
    /\ access = << >>
    /\ first = NoRun
    /\ rmw = NoRmw

SetSelf(self) ==
    /\ stack' = self.stack
    /\ function' = self.function
    /\ is_mulitple_function' = self.is_mulitple_function
    /\ is_finish' = self.is_finish

\* the vendor-ID read every turn of the loop starts with
RecordProbe ==
    LET addr == address(reg, Self)
    IN  /\ probes' = probes \cup {mmio_addr(addr, 0)}
        /\ nprobes' = nprobes + 1
        /\ lastProbe' = [made |-> TRUE, address |-> addr,
                         path |-> HwFunction(reg, addr)]

\* the caller calls Iterator::next
Call ==
    /\ pc = "idle"
    /\ pc' = "loop"
    /\ UNCHANGED << ecamvars, first, topo, reg, bus_start, bus_max, do_allocate, stack, function,
                    is_mulitple_function, is_finish, ret, probes, nprobes,
                    lastProbe, yielded, accepted, barvars, wlog >>

\* the command and BAR registers that answer at path p; where no endpoint
\* answers there is nothing to decode and nothing implemented
Registers(p) ==
    IF p \in DOMAIN cfg THEN cfg[p] ELSE EndpointRegs(FALSE, FALSE, NoBars)

\* what Endpoint::new did for the endpoint at path p; ok: it returned, ~ok:
\* it panicked
BarEffects(p, ep, ok) ==
    /\ ep.ok = ok
    /\ cfg' = [cfg EXCEPT ![p] = ep.regs]
    /\ allocator' = IF do_allocate /\ allocator.some THEN Some(ep.allocator)
                    ELSE allocator
    /\ requests' = requests \o Tag(ep.requests, p)
    /\ wlog' = wlog \o Tag(ep.writes, p)

\* the writes of register 0x18 when the bridge at path p is programmed and
\* the frames of stk are widened; the root frame is no hardware
BusWrites(regs, stk, p) ==
    LET real == SelectSeq(stk, LAMBDA f : ~f.bridge.root)
    IN  << [ConfigWrite("bus", 0, "program") EXCEPT !.path = p] >>
        \o [i \in 1..Len(real) |->
               [ConfigWrite("bus", 0, "widen") EXCEPT
                   !.path = HwFunction(regs, real[i].bridge.address)]]

\* one turn of the loop: an endpoint is found and its descriptor built; the
\* cursor advances and the call returns it
IterEndpoint ==
    /\ pc = "loop" /\ ~is_finish
    /\ LET g == get_current_valid(reg, Self)
           addr == address(reg, Self)
           ep == endpoint_arm(Registers(HwFunction(reg, addr)), allocator,
                              do_allocate)
       IN  /\ g.value = "Endpoint"
           /\ BarEffects(HwFunction(reg, addr), ep, TRUE)
           /\ SetSelf(next_none(g.regs, g.self))
           /\ reg' = g.regs
           /\ ret' = [tag |-> "Some", address |-> addr]
           /\ yielded' = Append(yielded, [address |-> addr,
                                          path |-> HwFunction(reg, addr)])
    /\ RecordProbe
    /\ pc' = "idle"
    /\ UNCHANGED << ecamvars, first, topo, bus_start, bus_max, do_allocate, accepted >>

\* one turn of the loop: a bridge is found and accepted; it is programmed,
\* the frames are widened and the bridge is pushed
IterBridge ==
    /\ pc = "loop" /\ ~is_finish
    /\ LET g == get_current_valid(reg, Self)
           addr == address(reg, Self)
       IN  /\ g.value = "PciPciBridge"
           /\ LET n == next_bridge(g.regs, g.self, g.bridge)
              IN  /\ SetSelf(n[1])
                  /\ reg' = n[2]
           /\ accepted' = Append(accepted,
                             [address |-> addr, path |-> HwFunction(reg, addr),
                              bus |-> bus_numbers(g.regs, g.bridge)])
           /\ wlog' = wlog \o BusWrites(g.regs, stack, HwFunction(reg, addr))
    /\ RecordProbe
    /\ UNCHANGED << ecamvars, first, topo, bus_start, bus_max, do_allocate, pc, ret, yielded,
                    barvars >>

\* one turn of the loop: nothing valid at the cursor (no function, or a
\* bridge refused for want of a bus number); the cursor advances
IterNone ==
    /\ pc = "loop" /\ ~is_finish
    /\ LET g == get_current_valid(reg, Self)
       IN  /\ g.value = "None"
           /\ SetSelf(next_none(g.regs, g.self))
           /\ reg' = g.regs
    /\ RecordProbe
    /\ UNCHANGED << ecamvars, first, topo, bus_start, bus_max, do_allocate, pc, ret, yielded,
                    accepted, barvars, wlog >>

\* the loop ends: the call returns None
ReturnNone ==
    /\ pc = "loop" /\ is_finish
    /\ pc' = "idle"
    /\ ret' = [tag |-> "None", address |-> PciAddress(0, 0, 0)]
    /\ UNCHANGED << ecamvars, first, topo, reg, bus_start, bus_max, do_allocate, stack, function,
                    is_mulitple_function, is_finish, probes, nprobes,
                    lastProbe, yielded, accepted, barvars, wlog >>

\* one turn of the loop: an endpoint is found and Endpoint::new panics (the
\* unwrap of a None from the allocator or of an Err from a BAR write, or
\* unimplemented! for an I/O BAR 0); what was done before the panic stays
\* done, and the iterator is gone
IterEndpointPanic ==
    /\ pc = "loop" /\ ~is_finish
    /\ LET g == get_current_valid(reg, Self)
           addr == address(reg, Self)
           ep == endpoint_arm(Registers(HwFunction(reg, addr)), allocator,
                              do_allocate)
       IN  /\ g.value = "Endpoint"
           /\ BarEffects(HwFunction(reg, addr), ep, FALSE)
           /\ SetSelf(g.self)
           /\ reg' = g.regs
    /\ RecordProbe
    /\ pc' = "panicked"
    /\ UNCHANGED << ecamvars, first, topo, bus_start, bus_max, do_allocate, ret, yielded,
                    accepted >>

\* one turn of the loop: the function found is a CardBus bridge or has an
\* unknown header type; the arm is todo!(), which panics
IterTodo ==
    /\ pc = "loop" /\ ~is_finish
    /\ LET g == get_current_valid(reg, Self)
       IN  /\ g.value = "todo"
           /\ SetSelf(g.self)
           /\ reg' = g.regs
    /\ RecordProbe
    /\ pc' = "panicked"
    /\ UNCHANGED << ecamvars, first, topo, bus_start, bus_max, do_allocate, ret, yielded,
                    accepted, barvars, wlog >>

Next == Call \/ IterEndpoint \/ IterBridge \/ IterNone \/ ReturnNone

Spec == Init /\ [][Next]_vars

\* ------------------------------------------------------------------------
\* The walk over endpoints with BARs: functions of every header type, BAR
\* layouts in the endpoints, and a root complex with or without windows.
\* Sizes and addresses are in units of 16 bytes: 256 is a BAR of 0x1000
\* bytes, 67108864 is the address 0x4000_0000.
SlotA == << <<0, 0>> >>
SlotB == << <<MAX_DEVICE, 0>> >>
SlotAC == << <<0, 0>>, <<0, 0>> >>
Hdr(type) == [type |-> type, multi |-> FALSE]

BarTopologies ==
    { SlotA :> Hdr("Endpoint"),
      (SlotA :> Hdr("Endpoint")) @@ (SlotB :> Hdr("Endpoint")),
      (SlotA :> Hdr("PciPciBridge")) @@ (SlotAC :> Hdr("Endpoint"))
          @@ (SlotB :> Hdr("Endpoint")),
      (SlotA :> Hdr("CardBusBridge")) @@ (SlotB :> Hdr("Endpoint")),
      (SlotA :> Hdr("Unknown")) @@ (SlotB :> Hdr("Endpoint")) }

\* the BAR layouts an endpoint may have
Layouts ==
    { NoBars,
      \* one 32-bit BAR of 0x1000 bytes
      << Slot("mem32", 256, FALSE, 0, 0), NoBar, NoBar, NoBar, NoBar, NoBar >>,
      \* two 32-bit BARs of 0x1000 bytes
      << Slot("mem32", 256, FALSE, 0, 0), Slot("mem32", 256, FALSE, 0, 0),
         NoBar, NoBar, NoBar, NoBar >>,
      \* one prefetchable 64-bit BAR of 0x10000 bytes, unassigned
      << Slot("mem64", 4096, TRUE, 0, 0), HiBar, NoBar, NoBar, NoBar, NoBar >>,
      \* one 64-bit BAR of 0x1000 bytes that firmware placed below 4 GiB
      << Slot("mem64", 256, FALSE, 234881024, 0), HiBar,
         NoBar, NoBar, NoBar, NoBar >>,
      \* an I/O BAR in slot 0
      << Slot("io", 0, FALSE, 49152, 0), NoBar, NoBar, NoBar, NoBar, NoBar >>,
      \* slot 0 unimplemented, a 32-bit BAR of 0x1000 bytes in slot 1
      << NoBar, Slot("mem32", 256, FALSE, 0, 0), NoBar, NoBar, NoBar, NoBar >>,
      \* an unassigned 64-bit BAR of 0x1000 bytes, then a 32-bit BAR in slot 2
      << Slot("mem64", 256, FALSE, 0, 0), HiBar,
         Slot("mem32", 256, FALSE, 0, 0), NoBar, NoBar, NoBar >>,
      \* an I/O BAR in slot 0, then a 32-bit BAR in slot 1
      << Slot("io", 0, FALSE, 49152, 0), Slot("mem32", 256, FALSE, 0, 0),
         NoBar, NoBar, NoBar, NoBar >>,
      \* a 32-bit BAR, then a 64-bit BAR that firmware placed at
      \* 0x8_0000_0000 in slots 2 and 3
      << Slot("mem32", 256, FALSE, 0, 0), NoBar,
         Slot("mem64", 4096, TRUE, 0, 8), HiBar, NoBar, NoBar >> }

\* RootComplex::set_space32 / set_space64 on RootComplex.allocator
set_space32(a, space) ==
    Some(set_mem32(IF a.some THEN a.v ELSE SimpleBarAllocator_default, space)[2])
set_space64(a, space) ==
    Some(set_mem64(IF a.some THEN a.v ELSE SimpleBarAllocator_default, space)[2])

\* the windows installed before the walk: none; a 32-bit window of 1 MiB at
\* 0x4000_0000; a 32-bit window of 0x1000 bytes at 0x4000_0000; a 32-bit
\* window, a prefetchable 32-bit window and a 64-bit window at 4 GiB; a
\* prefetchable 32-bit window of 0x10000 bytes at 0x8000_0000 alone; a 64-bit
\* window of 1 MiB at 4 GiB alone
Allocators ==
    { None,
      set_space64(None, PciSpace(U32, 65536, FALSE)),
      set_space32(None, PciSpace(134217728, 4096, TRUE)),
      set_space32(None, PciSpace(67108864, 65536, FALSE)),
      set_space32(None, PciSpace(67108864, 256, FALSE)),
      set_space64(
          set_space32(set_space32(None, PciSpace(67108864, 65536, FALSE)),
                      PciSpace(83886080, 65536, TRUE)),
          PciSpace(U32, 65536, FALSE)) }

\* enumerate(None) and enumerate_keep_bar(None)
BarCalls == { <<0, 256, TRUE>>, <<0, 256, FALSE>> }

BarInit ==
    /\ topo \in BarTopologies
    /\ reg = [p \in BridgePaths(topo) |-> BusNumber(0, 0, 0)]
    /\ \E range \in BarCalls :
         LET it == Enumerate(range[1], range[2], range[3])
         IN  /\ bus_start = range[1]
             /\ bus_max = it.bus_max
             /\ do_allocate = it.do_allocate
             /\ stack = it.stack
             /\ function = it.function
             /\ is_mulitple_function = it.is_mulitple_function
             /\ is_finish = it.is_finish
    /\ pc = "idle"
    /\ ret = [tag |-> "none", address |-> PciAddress(0, 0, 0)]
    /\ probes = {}
    /\ nprobes = 0
    /\ lastProbe = [made |-> FALSE, address |-> PciAddress(0, 0, 0), path |-> NoFunction]
    /\ yielded = << >>
    /\ accepted = << >>
    /\ cfg \in [EndpointPaths(topo) ->
                   { EndpointRegs(TRUE, TRUE, l) : l \in Layouts }]
    /\ allocator \in Allocators
    /\ requests = << >>
    /\ wlog = << >>
    /\ ecam = << >>
    /\ access = << >>
    /\ first = NoRun
    /\ rmw = NoRmw

BarNext ==
    \/ Call \/ IterEndpoint \/ IterBridge \/ IterNone \/ ReturnNone
    \/ IterEndpointPanic \/ IterTodo

BarSpec == BarInit /\ [][BarNext]_vars

\* ------------------------------------------------------------------------
\* SimpleBarAllocator driven directly: any sequence of set_mem32, set_mem64
\* and allocations on one allocator.  requests records the allocations.
\* at most this many allocations in a sequence
MaxCalls == 3

\* the windows installed (units of 16 bytes): 32-bit windows at a base that
\* is no multiple of 4 and across the 4 GiB line; 64-bit windows above 4 GiB
\* and below
Spaces32 == { PciSpace(50, 256, FALSE), PciSpace(U32 - 4, 32, TRUE) }
Spaces64 == { PciSpace(2 * U32 + 18, 64, FALSE), PciSpace(320, 64, TRUE) }

\* the sizes asked for; 3 is no power of two, and two ranges of 16 do not
\* fit in the 32-bit window across 4 GiB
AllocSizes == {1, 3, 4, 16}

\* the variables of the walk, which stands still
walkvars == << topo, reg, bus_start, bus_max, do_allocate, stack, function,
               is_mulitple_function, is_finish, pc, ret, probes, nprobes,
               lastProbe, yielded, accepted, cfg, wlog, ecamvars, first >>

AllocInit ==
    /\ topo = EmptyTopo
    /\ reg = [p \in BridgePaths(topo) |-> BusNumber(0, 0, 0)]
    /\ bus_start = 0
    /\ bus_max = 0
    /\ do_allocate = TRUE
    /\ stack = << >>
    /\ function = 0
    /\ is_mulitple_function = FALSE
    /\ is_finish = TRUE
    /\ pc = "alloc"
    /\ ret = [tag |-> "none", address |-> PciAddress(0, 0, 0)]
    /\ probes = {}
    /\ nprobes = 0
    /\ lastProbe = [made |-> FALSE, address |-> PciAddress(0, 0, 0), path |-> NoFunction]
    /\ yielded = << >>
    /\ accepted = << >>
    /\ cfg = [p \in EndpointPaths(topo) |-> EndpointRegs(TRUE, TRUE, NoBars)]
    /\ allocator = Some(SimpleBarAllocator_default)
    /\ requests = << >>
    /\ wlog = << >>
    /\ ecam = << >>
    /\ access = << >>
    /\ first = NoRun
    /\ rmw = NoRmw

SetMem32 ==
    /\ pc = "alloc"
    /\ \E space \in Spaces32 :
           allocator' = Some(set_mem32(allocator.v, space)[2])
    /\ UNCHANGED << walkvars, requests >>

SetMem64 ==
    /\ pc = "alloc"
    /\ \E space \in Spaces64 :
           allocator' = Some(set_mem64(allocator.v, space)[2])
    /\ UNCHANGED << walkvars, requests >>

\* an allocation returned r: << Some(address) or None, allocator, window >>
Allocated(width, size, prefetchable, r) ==
    /\ allocator' = Some(r[2])
    /\ requests' = Append(requests,
                          Request(width, size, prefetchable, r[1], r[3]))

AllocMemory32 ==
    /\ pc = "alloc" /\ Len(requests) < MaxCalls
    /\ \E size \in AllocSizes :
           Allocated(32, size, FALSE, alloc_memory32(allocator.v, size))
    /\ UNCHANGED walkvars

AllocMemory64 ==
    /\ pc = "alloc" /\ Len(requests) < MaxCalls
    /\ \E size \in AllocSizes :
           Allocated(64, size, FALSE, alloc_memory64(allocator.v, size))
    /\ UNCHANGED walkvars

AllocMemory32WithPref ==
    /\ pc = "alloc" /\ Len(requests) < MaxCalls
    /\ \E size \in AllocSizes, prefetchable \in BOOLEAN :
           Allocated(32, size, prefetchable,
                     alloc_memory32_with_pref(allocator.v, size, prefetchable))
    /\ UNCHANGED walkvars

AllocMemory64WithPref ==
    /\ pc = "alloc" /\ Len(requests) < MaxCalls
    /\ \E size \in AllocSizes, prefetchable \in BOOLEAN :
           Allocated(64, size, prefetchable,
                     alloc_memory64_with_pref(allocator.v, size, prefetchable))
    /\ UNCHANGED walkvars

AllocNext ==
    \/ SetMem32 \/ SetMem64
    \/ AllocMemory32 \/ AllocMemory64
    \/ AllocMemory32WithPref \/ AllocMemory64WithPref

AllocSpec == AllocInit /\ [][AllocNext]_vars

\* ------------------------------------------------------------------------
\* Two runs on one root complex, as the tests make them: a run is driven
\* until next() returns None, and enumerate_keep_bar is then called for the
\* same range of buses.  The hardware stays as the first run left it.
\* the first run: enumerate(None)
RerunCalls == { <<0, 256, TRUE>> }

RerunInit ==
    /\ Init
    /\ \E range \in RerunCalls :
           /\ bus_start = range[1] /\ bus_max = range[2] - 1
           /\ do_allocate = range[3]

\* the caller, done with the first run, calls enumerate_keep_bar for the
\* same range; what the first run yielded and left is kept for comparison
EnumerateKeepBar(it) ==
    /\ pc = "idle" /\ ret.tag = "None" /\ ~first.done
    /\ first' = [done |-> TRUE, yielded |-> yielded, accepted |-> accepted,
                 reg |-> reg]
    /\ do_allocate' = it.do_allocate
    /\ bus_max' = it.bus_max
    /\ SetSelf(it)
    /\ ret' = [tag |-> "none", address |-> PciAddress(0, 0, 0)]
    /\ probes' = {}
    /\ nprobes' = 0
    /\ lastProbe' = [made |-> FALSE, address |-> PciAddress(0, 0, 0),
                     path |-> NoFunction]
    /\ yielded' = << >>
    /\ accepted' = << >>
    /\ UNCHANGED << ecamvars, topo, reg, bus_start, pc, barvars, wlog >>

SecondRun == EnumerateKeepBar(Enumerate(bus_start, bus_max + 1, FALSE))

RerunNext ==
    \/ Call \/ IterEndpoint \/ IterBridge \/ IterNone \/ ReturnNone
    \/ SecondRun

RerunSpec == RerunInit /\ [][RerunNext]_vars

\* ------------------------------------------------------------------------
\* The walk over a bus range that does not start at bus 0:
\* enumerate(Some(32..34)), over the topologies of fewer than MaxNodes
\* functions.  Bridge::root stores range.start in the device cursor of the
\* root frame, so the cursor starts at 32.  `parent.device += 1` on 255
\* wraps where overflow checks are off and panics where they are on: both
\* outcomes are steps of the walk.
RangeCalls == { <<32, 34, TRUE>> }

RangeInit ==
    /\ topo \in Grow({EmptyTopo}, MaxNodes - 1)
    /\ reg = [p \in BridgePaths(topo) |-> BusNumber(0, 0, 0)]
    /\ \E range \in RangeCalls :
         LET it == Enumerate(range[1], range[2], range[3])
         IN  /\ bus_start = range[1]
             /\ bus_max = it.bus_max
             /\ do_allocate = it.do_allocate
             /\ stack = it.stack
             /\ function = it.function
             /\ is_mulitple_function = it.is_mulitple_function
             /\ is_finish = it.is_finish
    /\ pc = "idle"
    /\ ret = [tag |-> "none", address |-> PciAddress(0, 0, 0)]
    /\ probes = {}
    /\ nprobes = 0
    /\ lastProbe = [made |-> FALSE, address |-> PciAddress(0, 0, 0), path |-> NoFunction]
    /\ yielded = << >>
    /\ accepted = << >>
    /\ cfg = [p \in EndpointPaths(topo) |-> EndpointRegs(TRUE, TRUE, NoBars)]
    /\ allocator = None
    /\ requests = << >>
    /\ wlog = << >>
    /\ ecam = << >>
    /\ access = << >>
    /\ first = NoRun
    /\ rmw = NoRmw

\* one turn of the loop: nothing valid at the cursor, the function number
\* carries and the device cursor of the top frame holds 255; with overflow
\* checks on, `parent.device += 1` panics
IterOverflow ==
    /\ pc = "loop" /\ ~is_finish
    /\ LET g == get_current_valid(reg, Self)
       IN  /\ g.value = "None"
           /\ is_next_function_max(g.self)[2]
           /\ Top(g.self.stack).device = U8 - 1
           /\ SetSelf(is_next_function_max(g.self)[1])
           /\ reg' = g.regs
    /\ RecordProbe
    /\ pc' = "panicked"
    /\ UNCHANGED << ecamvars, first, topo, bus_start, bus_max, do_allocate, ret, yielded,
                    accepted, barvars, wlog >>

RangeNext ==
    \/ Call \/ IterEndpoint \/ IterBridge \/ IterNone \/ ReturnNone
    \/ IterOverflow

RangeSpec == RangeInit /\ [][RangeNext]_vars

\* ------------------------------------------------------------------------
\* PcieGeric driven directly: any sequence of Controller::read and
\* Controller::write on one ECAM window.  A word never written reads 0.
\* at most this many accesses in a sequence
MaxAccess == 2

\* the addresses, offsets and values of the accesses: the ends of every
\* field
EcamAddresses ==
    { PciAddress(b, d, f) : b \in {0, 1, 255}, d \in {0, 1, MAX_DEVICE},
                            f \in {0, 1, MAX_FUNCTION} }
EcamOffsets == {0, 4, 4092}
EcamValues == {1, 2}

\* ptr.read_volatile() on the window mem
read_volatile(mem, at) == IF at \in DOMAIN mem THEN mem[at] ELSE 0

\* ptr.write_volatile(value) on the window mem
write_volatile(mem, at, value) == [x \in DOMAIN mem \cup {at} |->
                                      IF x = at THEN value ELSE mem[x]]

Access(op, addr, offset, at, value) ==
    [op |-> op, address |-> addr, offset |-> offset, at |-> at,
     value |-> value]

\* the variables PcieGeric does not touch
othervars == << topo, reg, bus_start, bus_max, do_allocate, stack, function,
                is_mulitple_function, is_finish, pc, ret, probes, nprobes,
                lastProbe, yielded, accepted, cfg, allocator, requests, wlog,
                first >>

EcamInit ==
    /\ topo = EmptyTopo
    /\ reg = [p \in BridgePaths(topo) |-> BusNumber(0, 0, 0)]
    /\ bus_start = 0
    /\ bus_max = 0
    /\ do_allocate = FALSE
    /\ stack = << >>
    /\ function = 0
    /\ is_mulitple_function = FALSE
    /\ is_finish = TRUE
    /\ pc = "ecam"
    /\ ret = [tag |-> "none", address |-> PciAddress(0, 0, 0)]
    /\ probes = {}
    /\ nprobes = 0
    /\ lastProbe = [made |-> FALSE, address |-> PciAddress(0, 0, 0), path |-> NoFunction]
    /\ yielded = << >>
    /\ accepted = << >>
    /\ cfg = [p \in EndpointPaths(topo) |-> EndpointRegs(TRUE, TRUE, NoBars)]
    /\ allocator = None
    /\ requests = << >>
    /\ wlog = << >>
    /\ ecam = << >>
    /\ access = << >>
    /\ first = NoRun
    /\ rmw = NoRmw

\* Controller::read for PcieGeric, the pointer computed: at
ReadAt(addr, offset, at) ==
    /\ access' = Append(access, Access("read", addr, offset, at,
                                       read_volatile(ecam, at)))
    /\ UNCHANGED ecam

\* Controller::write for PcieGeric, the pointer computed: at
WriteAt(addr, offset, at, value) ==
    /\ access' = Append(access, Access("write", addr, offset, at, value))
    /\ ecam' = write_volatile(ecam, at, value)

ControllerRead ==
    /\ pc = "ecam" /\ Len(access) < MaxAccess
    /\ \E addr \in EcamAddresses, offset \in EcamOffsets :
           ReadAt(addr, offset, mmio_addr(addr, offset))
    /\ UNCHANGED << othervars, rmw >>

ControllerWrite ==
    /\ pc = "ecam" /\ Len(access) < MaxAccess
    /\ \E addr \in EcamAddresses, offset \in EcamOffsets, value \in EcamValues :
           WriteAt(addr, offset, mmio_addr(addr, offset), value)
    /\ UNCHANGED << othervars, rmw >>

EcamNext == ControllerRead \/ ControllerWrite

EcamSpec == EcamInit /\ [][EcamNext]_vars

\* ------------------------------------------------------------------------
\* Two agents on clones of one PcieController.  A clone shares the chip
\* through Arc<ChipRaw>; ChipRaw is declared Sync and holds no lock, so the
\* read and the write of a read-modify-write are two separate accesses that
\* the accesses of another thread may fall between.  The registers are the
\* command register (offset 0x04) of the endpoint at (1, 0, 0) and the
\* bus-number register (offset 0x18) of the bridge at (0, 0, 0).
\* at most this many read-modify-writes by an agent
MaxRmw == 2

RaceRegs ==
    { [address |-> PciAddress(1, 0, 0), offset |-> 4],
      [address |-> PciAddress(0, 0, 0), offset |-> 24] }

\* the closures handed to update_command / update_bus_number: realloc_bar
\* removes IO_ENABLE and MEMORY_ENABLE (bits 0 and 1), next(Some(bridge))
\* adds one to the subordinate (bits 16..24), the caller of a descriptor
\* hands |cmd| cmd
apply(f, v) ==
    CASE f = "quiesce" -> (v \div 4) * 4
      [] f = "widen" ->
            v - ((v \div 65536) % U8) * 65536
              + ((((v \div 65536) % U8) + 1) % U8) * 65536
      [] OTHER -> v

\* what an agent does to a register
closures(a, offset) ==
    IF a = "iterator"
    THEN IF offset = 4 THEN {"quiesce"} ELSE {"widen"}
    ELSE {"identity"}

\* firmware left the endpoint decoding (command = 3) and the bridge with
\* primary 0, secondary 1, subordinate 1
RaceInit ==
    /\ topo = EmptyTopo
    /\ reg = [p \in BridgePaths(topo) |-> BusNumber(0, 0, 0)]
    /\ bus_start = 0
    /\ bus_max = 0
    /\ do_allocate = FALSE
    /\ stack = << >>
    /\ function = 0
    /\ is_mulitple_function = FALSE
    /\ is_finish = TRUE
    /\ pc = "race"
    /\ ret = [tag |-> "none", address |-> PciAddress(0, 0, 0)]
    /\ probes = {}
    /\ nprobes = 0
    /\ lastProbe = [made |-> FALSE, address |-> PciAddress(0, 0, 0), path |-> NoFunction]
    /\ yielded = << >>
    /\ accepted = << >>
    /\ cfg = [p \in EndpointPaths(topo) |-> EndpointRegs(TRUE, TRUE, NoBars)]
    /\ allocator = None
    /\ requests = << >>
    /\ wlog = << >>
    /\ ecam = write_volatile(
                  write_volatile(<< >>, mmio_addr(PciAddress(1, 0, 0), 4), 3),
                  mmio_addr(PciAddress(0, 0, 0), 24), 65792)
    /\ access = << >>
    /\ first = NoRun
    /\ rmw = NoRmw

\* the first half of update_command / update_bus_number by agent a:
\* access.read(self.address, offset)
RmwRead(a) ==
    /\ pc = "race"
    /\ rmw[a].pc = "idle" /\ rmw[a].done < MaxRmw
    /\ \E r \in RaceRegs : \E f \in closures(a, r.offset) :
           /\ ReadAt(r.address, r.offset, mmio_addr(r.address, r.offset))
           /\ rmw' = [rmw EXCEPT ![a] =
                        [pc |-> "read", address |-> r.address,
                         offset |-> r.offset, f |-> f,
                         latched |-> read_volatile(ecam, mmio_addr(r.address,
                                                                   r.offset)),
                         stale |-> FALSE, done |-> rmw[a].done]]
    /\ UNCHANGED othervars

\* the second half: access.write(self.address, offset, f(data)); every
\* other agent that has read the same register and not yet written it now
\* holds a stale value
RmwWrite(a) ==
    /\ pc = "race"
    /\ rmw[a].pc = "read"
    /\ WriteAt(rmw[a].address, rmw[a].offset,
               mmio_addr(rmw[a].address, rmw[a].offset),
               apply(rmw[a].f, rmw[a].latched))
    /\ rmw' = [b \in Agents |->
                 IF b = a
                 THEN [rmw[a] EXCEPT !.pc = "idle", !.done = rmw[a].done + 1]
                 ELSE IF /\ rmw[b].pc = "read"
                         /\ rmw[b].address = rmw[a].address
                         /\ rmw[b].offset = rmw[a].offset
                      THEN [rmw[b] EXCEPT !.stale = TRUE]
                      ELSE rmw[b]]
    /\ UNCHANGED othervars

RaceNext == \E a \in Agents : RmwRead(a) \/ RmwWrite(a)

RaceSpec == RaceInit /\ [][RaceNext]_vars

\* ------------------------------------------------------------------------
\* Helpers of the properties
Range(seq) == { seq[i] : i \in 1..Len(seq) }
Fn0(addr) == PciAddress(addr.bus, addr.device, 0)
IsPrefix(p, q) == Len(p) <= Len(q) /\ SubSeq(q, 1, Len(p)) = p
Done == ret.tag = "None"

\* C1: no descriptor is ever yielded for an address whose vendor ID reads
\* 0xFFFF (every yielded address is answered by a present function), and a
\* turn that finds the function absent yields nothing, writes no register
\* and accepts no bridge: it only moves the cursor.
C1_AbsentNeverYielded ==
    /\ [](\A i \in 1..Len(yielded) : yielded[i].path \in DOMAIN topo)
    /\ [][ (nprobes' = nprobes + 1 /\ lastProbe'.path = NoFunction)
             => /\ yielded' = yielded
                /\ ret' = ret
                /\ reg' = reg
                /\ accepted' = accepted ]_vars

C1_Witness ==
    /\ lastProbe.made /\ lastProbe.path = NoFunction
    /\ Len(yielded) > 0

\* C2: a function number > 0 is probed only if function 0 of the same
\* (bus, device) is present and reports has_multiple_functions.
C2_MultiFunctionGating ==
    (lastProbe.made /\ lastProbe.address.function > 0)
        => LET p0 == HwFunction(reg, Fn0(lastProbe.address))
           IN  p0 # NoFunction /\ topo[p0].multi

\* C4: no address is probed twice (so none is yielded twice).
C4_NoAddressTwice ==
    /\ Cardinality(probes) = nprobes
    /\ \A i, j \in 1..Len(yielded) :
           i # j => yielded[i].address # yielded[j].address

C4_Witness ==
    /\ Done /\ Len(accepted) >= 2 /\ Len(yielded) >= 1

\* ------------------------------------------------------------------------
\* the paths of the bridges accepted and of the endpoints yielded so far
AcceptedPaths == { accepted[i].path : i \in 1..Len(accepted) }
YieldedPaths == { yielded[i].path : i \in 1..Len(yielded) }
Parent(p) == SubSeq(p, 1, Len(p) - 1)
Slot0(p) == Append(Parent(p), << p[Len(p)][1], 0 >>)

\* a present function the walk may reach: on the root bus or on the child
\* bus of an accepted bridge, and allowed by multi-function gating
Reachable(p) ==
    /\ Parent(p) = << >> \/ Parent(p) \in AcceptedPaths
    /\ \/ p[Len(p)][2] = 0
       \/ Slot0(p) \in DOMAIN topo /\ topo[Slot0(p)].multi

\* C3: when the iterator has returned None, every present endpoint on the
\* root bus or on the child bus of an accepted bridge, allowed by the
\* gating, has been yielded.
\* Runs from bus 0 are taken, where the cursor starts at device 0 of the
\* root bus.
C3_EveryEndpointYielded ==
    (Done /\ bus_start = 0)
        => \A p \in DOMAIN topo :
             (topo[p].type = "Endpoint" /\ Reachable(p)) => p \in YieldedPaths

Ordered(bus) ==
    /\ bus.primary <= bus.secondary
    /\ bus.secondary <= bus.subordinate
    /\ bus.subordinate <= bus_max

\* C5: every frame on the stack, and the register of every bridge that has
\* been programmed, holds primary <= secondary <= subordinate <= bus_max.
C5_BusNumbersOrdered ==
    /\ \A i \in 1..Len(stack) : Ordered(bus_numbers(reg, stack[i].bridge))
    /\ \A i \in 1..Len(accepted) : Ordered(reg[accepted[i].path])

C5_Witness ==
    /\ Len(stack) >= 3
    /\ bus_numbers(reg, stack[2].bridge).subordinate
           > bus_numbers(reg, stack[2].bridge).secondary

Max(S) == CHOOSE x \in S : \A y \in S : y <= x

\* C6: at completion the subordinate in the register of every accepted
\* bridge is the largest secondary assigned to it or to a bridge beneath
\* it, and its primary and secondary are those programmed at discovery.
C6_SubordinateIsMaxBeneath ==
    Done => \A i \in 1..Len(accepted) :
              LET a == accepted[i]
                  beneath == { accepted[j].bus.secondary :
                                 j \in { k \in 1..Len(accepted) :
                                           IsPrefix(a.path, accepted[k].path) } }
              IN  /\ reg[a.path].subordinate = Max(beneath)
                  /\ reg[a.path].primary = a.bus.primary
                  /\ reg[a.path].secondary = a.bus.secondary

C6_Witness ==
    /\ Done /\ Len(accepted) >= 3
    /\ reg[accepted[1].path].subordinate > accepted[1].bus.subordinate
    /\ reg[accepted[3].path].subordinate = accepted[3].bus.subordinate

\* the entry of the accepted bridge at path p
AcceptedAt(p) == CHOOSE a \in Range(accepted) : a.path = p

\* the number of the bus a present function sits on, as the walk numbered it
BusOf(p) == IF Parent(p) = << >> THEN bus_start
            ELSE AcceptedAt(Parent(p)).bus.secondary

AtRefusedBridge ==
    /\ pc = "loop" /\ ~is_finish
    /\ HwFunction(reg, address(reg, Self)) \in BridgePaths(topo)
    /\ subordinate_bus_number(reg, Top(stack).bridge) = bus_max

\* C8: no bus number above bus_max is assigned to a bridge or used in an
\* access; a bridge found while the top frame's subordinate equals bus_max
\* is not programmed, not pushed and not descended into, and the cursor
\* moves past it.
C8_BusMaxRespected ==
    /\ [](/\ \A i \in 1..Len(accepted) : accepted[i].bus.subordinate <= bus_max
          /\ \A p \in BridgePaths(topo) : reg[p].subordinate <= bus_max
          /\ lastProbe.address.bus <= bus_max)
    /\ [][ AtRefusedBridge
             => /\ reg' = reg
                /\ accepted' = accepted
                /\ yielded' = yielded
                /\ Len(stack') <= Len(stack)
                /\ is_finish' \/ address(reg', Self') # address(reg, Self) ]_vars

C8_Witness ==
    /\ lastProbe.made
    /\ lastProbe.path \in BridgePaths(topo) \ AcceptedPaths
    /\ Len(accepted) >= 1

Before(a, b) ==
    \/ a.device < b.device
    \/ a.device = b.device /\ a.function < b.function

\* C9: descriptors on one bus are yielded in strictly ascending (device,
\* function) order; a descriptor beneath a bridge at (b, d, f) is yielded
\* after every descriptor on bus b with (device, function) < (d, f) and
\* before every descriptor on bus b with device > d.
C9_DepthFirstOrder ==
    /\ \A i, j \in 1..Len(yielded) :
         (i < j /\ yielded[i].address.bus = yielded[j].address.bus)
            => Before(yielded[i].address, yielded[j].address)
    /\ \A k \in 1..Len(accepted) : \A i, j \in 1..Len(yielded) :
         ( /\ IsPrefix(accepted[k].path, yielded[i].path)
           /\ yielded[j].address.bus = accepted[k].address.bus )
            => /\ Before(yielded[j].address, accepted[k].address) => j < i
               /\ yielded[j].address.device > accepted[k].address.device => i < j

C9_Witness ==
    /\ Len(yielded) = 2 /\ Len(accepted) = 1
    /\ IsPrefix(accepted[1].path, yielded[1].path)
    /\ yielded[2].address.bus = accepted[1].address.bus
    /\ yielded[2].address.device > accepted[1].address.device

\* ------------------------------------------------------------------------
\* How far the walk has come, in configuration accesses it can no longer
\* make: 256 for every bus left for good, the slots up to and including the
\* device being descended for every lower frame, the cursor for the top.
RECURSIVE SlotsBelow(_, _)
SlotsBelow(stk, i) ==
    IF i >= Len(stk) THEN 0
    ELSE stk[i].device * 8 + 8 + SlotsBelow(stk, i + 1)

Pos ==
    256 * (Len(accepted) + 1 - Len(stack))
    + SlotsBelow(stack, 1)
    + (IF stack = << >> THEN 0 ELSE Top(stack).device * 8 + function)

C12_RootFrameAndCursor ==
    /\ [](nprobes = 1 => lastProbe.address = PciAddress(bus_start, 0, 0))
    /\ [](\E range \in Calls : bus_start = range[1] /\ bus_max = range[2] - 1)
    /\ [][ (nprobes' = nprobes + 1 /\ Len(stack) = 1 /\ stack[1].bridge.root)
             => lastProbe'.address.bus = bus_start ]_vars

\* ------------------------------------------------------------------------
\* the functions whose header type has no arm of its own
Unhandled == {"CardBusBridge", "Unknown"}

\* C13: a present function whose header type is CardBus bridge or unknown
\* is ordinary data: once it has been probed the run goes on (no abort) and
\* a descriptor has been yielded for it.
C13_UnknownHeaderIsData ==
    (/\ lastProbe.made
     /\ lastProbe.path # NoFunction
     /\ topo[lastProbe.path].type \in Unhandled)
        => /\ pc # "panicked"
           /\ lastProbe.path \in YieldedPaths

\* C14: a request the allocator cannot satisfy does not abort the run.
C14_AllocFailureNotFatal ==
    (\E i \in 1..Len(requests) : ~requests[i].result.some)
        => pc # "panicked"

\* C15: when a request made for an endpoint fails, nothing stays reserved
\* for that endpoint (no other request made for it has succeeded), none of
\* its BARs has been programmed, and its decode bits are clear.
C15_FailureAtomic ==
    \A i \in 1..Len(requests) :
        ~requests[i].result.some =>
            LET p == requests[i].path
            IN  /\ \A j \in 1..Len(requests) :
                       requests[j].path = p => ~requests[j].result.some
                /\ \A k \in 1..Len(wlog) :
                       wlog[k].path = p => wlog[k].why # "program"
                /\ ~cfg[p].io_enable /\ ~cfg[p].memory_enable

\* the address of a BAR as one number; the upper dword counts 2^32 bytes
BarAddress(b) == b.hi * U32 + b.lo

\* the BARs the descriptor of the endpoint at path p reports now
\* (Endpoint::bars), the empty slots left out
bars_now(p) == SelectSeq(parse_bar(cfg[p].bars).data, LAMBDA x : x.some)

\* the requests made for the endpoint at path p, in order
requests_of(p) == SelectSeq(requests, LAMBDA r : r.path = p)

\* C16: after an endpoint has been reprogrammed (it was yielded in allocate
\* mode with an allocator installed), each non-empty slot of its BARs reads
\* back the address the allocator returned for it, with the size and the
\* prefetchable flag sizing reported when the request was made.
C16_ReadBack ==
    (do_allocate /\ allocator.some) =>
        \A p \in YieldedPaths \cap EndpointPaths(topo) :
            /\ Len(bars_now(p)) = Len(requests_of(p))
            /\ \A k \in 1..Len(bars_now(p)) :
                   /\ requests_of(p)[k].result.some
                   /\ BarAddress(bars_now(p)[k].v) = requests_of(p)[k].result.v
                   /\ bars_now(p)[k].v.size = requests_of(p)[k].size
                   /\ bars_now(p)[k].v.prefetchable
                          = requests_of(p)[k].prefetchable

\* C17: in allocate mode with an allocator installed, every write of a BAR
\* register of an endpoint (sizing or programming) comes after the write of
\* its command register that clears IO_ENABLE and MEMORY_ENABLE; both bits
\* are clear in every endpoint yielded, and a bit that is clear is never
\* set again.
C17_QuiesceFirst ==
    /\ [](\A i \in 1..Len(wlog) :
              wlog[i].register = "bar" =>
                  \E j \in 1..(i - 1) : /\ wlog[j].path = wlog[i].path
                                        /\ wlog[j].register = "command"
                                        /\ wlog[j].why = "quiesce")
    /\ []((do_allocate /\ allocator.some) =>
              \A p \in YieldedPaths \cap EndpointPaths(topo) :
                  ~cfg[p].io_enable /\ ~cfg[p].memory_enable)
    /\ [][ \A p \in DOMAIN cfg :
               /\ ~cfg[p].io_enable => ~cfg'[p].io_enable
               /\ ~cfg[p].memory_enable => ~cfg'[p].memory_enable ]_vars

C17_Witness ==
    /\ do_allocate /\ allocator.some /\ Done
    /\ Len(yielded) = 2
    /\ \E k \in 1..Len(wlog) : wlog[k].why = "program"

\* C18: during enumerate_keep_bar, and during enumerate with no allocator
\* installed, no request is made to the allocator and no command or BAR
\* register of an endpoint is written: the endpoints' registers and the
\* allocator stay as they were.
C18_KeepBarFrame ==
    /\ []((~do_allocate \/ ~allocator.some) =>
              /\ requests = << >>
              /\ \A k \in 1..Len(wlog) : wlog[k].register = "bus")
    /\ [][ (~do_allocate \/ ~allocator.some) =>
               /\ cfg' = cfg
               /\ allocator' = allocator ]_vars

C18_Witness ==
    /\ ~do_allocate /\ allocator.some /\ Done
    /\ \E p \in YieldedPaths \cap EndpointPaths(topo) :
           \E k \in 1..6 : cfg[p].bars[k].kind = "mem32"
    /\ \E p \in YieldedPaths \cap EndpointPaths(topo) :
           \E k \in 1..6 : cfg[p].bars[k].kind = "io"

\* ------------------------------------------------------------------------
\* C19: every address an allocation of SimpleBarAllocator returns for a
\* power-of-two size is a multiple of the size, whatever the base of the
\* window it comes from.
C19_Aligned ==
    \A i \in 1..Len(requests) :
        (requests[i].result.some /\ IsPowerOfTwo(requests[i].size))
            => requests[i].result.v % requests[i].size = 0

\* an address from the window based at 50 and an address of the window
\* across 4 GiB that the cast to u32 wrapped
C19_Witness ==
    /\ \E i \in 1..Len(requests) :
           /\ requests[i].window = "mem32" /\ requests[i].size = 4
           /\ requests[i].result = Some(52)
    /\ \E i \in 1..Len(requests) :
           /\ requests[i].window = "mem32_pref" /\ requests[i].size = 4
           /\ requests[i].result.some /\ requests[i].result.v < 50

\* the range a successful request was given
RangeOf(r) == [start |-> r.result.v, end |-> r.result.v + r.size]

\* C20: the ranges [address, address + size) returned by the successful
\* allocations of one allocator are pairwise disjoint, whatever set_mem32
\* and set_mem64 calls come between them.
C20_Disjoint ==
    \A i, j \in 1..Len(requests) :
        (i < j /\ requests[i].result.some /\ requests[j].result.some)
            => \/ RangeOf(requests[i]).end <= RangeOf(requests[j]).start
               \/ RangeOf(requests[j]).end <= RangeOf(requests[i]).start

\* ------------------------------------------------------------------------
\* the last request made, and what the allocator a answers to a request of
\* width w for size s
LastRequest(reqs) == reqs[Len(reqs)]
answer(a, w, s, p) ==
    IF w = 32 THEN alloc_memory32_with_pref(a, s, p)[1]
    ELSE alloc_memory64_with_pref(a, s, p)[1]

\* C21: an allocation that cannot be satisfied returns None and leaves the
\* four windows as they were: the same request made again returns None
\* again, and every request is answered after the failed call as it would
\* have been before it.
C21_FailureLeavesWindows ==
    [][ (/\ Len(requests') = Len(requests) + 1
         /\ ~LastRequest(requests').result.some)
            => /\ allocator' = allocator
               /\ answer(allocator'.v, LastRequest(requests').width,
                         LastRequest(requests').size,
                         LastRequest(requests').prefetchable) = None
               /\ \A w \in {32, 64}, s \in AllocSizes, p \in BOOLEAN :
                      answer(allocator'.v, w, s, p) = answer(allocator.v, w, s, p)
      ]_vars

\* a window that served a request is full for the next one of that size, and
\* serves a smaller one after the failure
C21_Witness ==
    /\ Len(requests) = 3
    /\ requests[1].result.some /\ requests[1].size = 16
    /\ requests[2].size = 16 /\ requests[2].window = requests[1].window
    /\ ~requests[2].result.some
    /\ requests[3].result.some /\ requests[3].window = requests[1].window

\* ------------------------------------------------------------------------
\* the window of allocator a that a request of width w with flag p is for
window_for(a, w, p) ==
    IF w = 32
    THEN IF p /\ a.mem32_pref.some THEN "mem32_pref"
         ELSE IF a.mem32.some THEN "mem32" ELSE "none"
    ELSE IF p /\ a.mem64_pref.some THEN "mem64_pref"
         ELSE IF a.mem64.some THEN "mem64" ELSE "none"

\* the range a successful request was given lies in window al
Inside(r, al) ==
    al.base <= r.result.v /\ r.result.v + r.size <= al.end

\* C22: a request is served from the prefetchable window of its width when
\* it is prefetchable and that window is installed, and from the
\* non-prefetchable window of its width otherwise; a non-prefetchable
\* request is never served from a prefetchable window; the range returned
\* lies inside the window that served it.
C22_PrefRouting ==
    [][ Len(requests') = Len(requests) + 1
            => LET r == LastRequest(requests')
               IN  /\ r.window = window_for(allocator.v, r.width, r.prefetchable)
                   /\ ~r.prefetchable => r.window \notin {"mem32_pref", "mem64_pref"}
                   /\ r.result.some => Inside(r, allocator.v[r.window].v)
      ]_vars

\* ------------------------------------------------------------------------
\* C23: a 64-bit request whose size fits in 32 bits and that no 64-bit
\* window serves is satisfied from the 32-bit windows: such a request has
\* failed only if the 32-bit windows, asked as alloc_memory32_with_pref
\* asks them, cannot serve it either.
C23_Fallback32 ==
    \A i \in 1..Len(requests) :
        (/\ requests[i].width = 64 /\ requests[i].size < U32
         /\ ~requests[i].result.some)
            => ~alloc_memory32_with_pref(allocator.v, requests[i].size,
                                         requests[i].prefetchable)[1].some

\* ------------------------------------------------------------------------
\* C24: for a yielded endpoint with a 64-bit memory BAR in slot i, the BARs
\* parsed from it (Endpoint::bars) hold that BAR as the one Memory64 entry
\* of slots i and i+1, and slot i+1 has not been sized as a BAR of its own.
C24_Fusion64 ==
    \A p \in YieldedPaths \cap EndpointPaths(topo) : \A i \in 0..4 :
        cfg[p].bars[i + 1].kind = "mem64" =>
            /\ parse_bar(cfg[p].bars).kind = "Memory64"
            /\ i % 2 = 0
            /\ parse_bar(cfg[p].bars).data[(i \div 2) + 1]
                   = read_bar(cfg[p].bars, i)
            /\ \A k \in 1..Len(wlog) :
                   ~(/\ wlog[k].path = p /\ wlog[k].register = "bar"
                     /\ wlog[k].slot = i + 1)

\* ------------------------------------------------------------------------
\* the accesses before the i-th that wrote the word the i-th names by
\* (bus, device, function, offset)
WritesBefore(i) ==
    { j \in 1..(i - 1) : /\ access[j].op = "write"
                         /\ access[j].address = access[i].address
                         /\ access[j].offset = access[i].offset }

\* C25: every access through PcieGeric is to the word at byte offset
\* (bus << 20) | (device << 15) | (function << 12) | off of the window, the
\* fields side by side; that offset is below 256 MiB; accesses that differ
\* in (bus, device, function, off) are to different offsets; a read returns
\* what was last written under the same (bus, device, function, off), or
\* what the word held at the start, and the window holds under it what was
\* written last.
C25_EcamOffset ==
    /\ \A i \in 1..Len(access) :
         /\ access[i].at = access[i].address.bus * 1048576
                           + access[i].address.device * 32768
                           + access[i].address.function * 4096
                           + access[i].offset
         /\ access[i].at < 268435456
         /\ access[i].op = "read" =>
               access[i].value = IF WritesBefore(i) = {} THEN 0
                                 ELSE access[Max(WritesBefore(i))].value
         /\ (/\ access[i].op = "write"
             /\ \A j \in (i + 1)..Len(access) :
                    ~(/\ access[j].op = "write"
                      /\ access[j].address = access[i].address
                      /\ access[j].offset = access[i].offset))
               => read_volatile(ecam, access[i].at) = access[i].value
    /\ \A i, j \in 1..Len(access) :
         (access[i].address # access[j].address
             \/ access[i].offset # access[j].offset)
            => access[i].at # access[j].at

\* the last word of bus 0 is written and the first word of bus 1 is read
C25_Witness ==
    /\ Len(access) = 2
    /\ access[1].op = "write"
    /\ access[1].address = PciAddress(0, MAX_DEVICE, MAX_FUNCTION)
    /\ access[1].offset = 4092
    /\ access[2].op = "read"
    /\ access[2].address = PciAddress(1, 0, 0) /\ access[2].offset = 0
    /\ access[2].at = access[1].at + 4

\* ------------------------------------------------------------------------
\* the addresses of the descriptors in y, in order
Addresses(y) == [i \in 1..Len(y) |-> y[i].address]

\* C26: when enumerate_keep_bar, called after a completed run over the same
\* range, has itself run to completion, it has yielded endpoints at the
\* addresses the first run yielded them at, in the same order, it has
\* accepted the same bridges with the same bus numbers, and every bridge's
\* (primary, secondary, subordinate) register holds what the first run left
\* there.
C26_RerunSame ==
    (first.done /\ Done)
        => /\ Addresses(yielded) = Addresses(first.yielded)
           /\ yielded = first.yielded
           /\ accepted = first.accepted
           /\ reg = first.reg

\* both runs are complete; a bridge with a bridge beneath it has been
\* re-programmed and widened again, and an endpoint was yielded beneath
C26_Witness ==
    /\ first.done /\ Done /\ first.reg = reg
    /\ Len(accepted) >= 2 /\ Len(yielded) >= 1
    /\ IsPrefix(accepted[1].path, accepted[2].path)
    /\ reg[accepted[1].path].subordinate > reg[accepted[1].path].secondary
    /\ \E i \in 1..Len(yielded) : Len(yielded[i].path) >= 2

\* ------------------------------------------------------------------------
\* the path of the bridge frame f holds, if it is among the bridges acc that
\* the run has programmed
FramePath(acc, f) ==
    IF \E a \in Range(acc) : a.address = f.bridge.address
    THEN (CHOOSE a \in Range(acc) : a.address = f.bridge.address).path
    ELSE NoFunction

\* with the registers regs, the frames stk and the bridges acc programmed,
\* an access to bus b goes down through programmed bridges only, each with
\* secondary <= b <= subordinate, to the child bus of the top frame's
\* bridge, whose secondary is b
Routed(regs, stk, acc, b) ==
    /\ Len(stk) >= 2
    /\ \A i \in 2..Len(stk) :
           /\ FramePath(acc, stk[i]) \in BridgePaths(topo)
           /\ regs[FramePath(acc, stk[i])].secondary <= b
           /\ b <= regs[FramePath(acc, stk[i])].subordinate
           /\ Len(FramePath(acc, stk[i])) = i - 1
           /\ i > 2 => IsPrefix(FramePath(acc, stk[i - 1]),
                                 FramePath(acc, stk[i]))
    /\ regs[FramePath(acc, Top(stk))].secondary = b
    /\ RouteFrom(regs, << >>, bus_start, b)
           = << TRUE, FramePath(acc, Top(stk)) >>

\* C27: at every configuration access to a bus b above bus_start, every
\* bridge on the way from the root bus to b has had its bus numbers written
\* and holds secondary <= b <= subordinate, the bridge above b with
\* secondary = b; and when a bridge has been accepted, its bus numbers and
\* the widened windows of all its ancestors are in the hardware before the
\* next access.
C27_WritesBeforeAccess ==
    /\ [][ (nprobes' = nprobes + 1 /\ lastProbe'.address.bus > bus_start)
              => Routed(reg, stack, accepted, lastProbe'.address.bus) ]_vars
    /\ [][ Len(accepted') = Len(accepted) + 1
              => /\ ~is_finish'
                 /\ Routed(reg', stack', accepted',
                           accepted'[Len(accepted')].bus.secondary) ]_vars

\* a function is found on the child bus of a bridge beneath a bridge
C27_Witness ==
    /\ lastProbe.made /\ lastProbe.path # NoFunction
    /\ lastProbe.address.bus = bus_start + 2
    /\ Len(lastProbe.path) = 3

\* ------------------------------------------------------------------------
\* C28: the multi-function flag is that of function 0: when a run over a
\* root bus without bridges is complete, for every device whose function 0
\* is present and reports has_multiple_functions, each of its functions
\* 1..7 has been probed, whatever the functions 1..7 that are present
\* report, and each of them that is present has been yielded.
\* Runs from bus 0 are taken, where the cursor starts at device 0.
C28_LatchedAtFunction0 ==
    (Done /\ bus_start = 0 /\ BridgePaths(topo) = {})
        => \A p \in DOMAIN topo :
             (Len(p) = 1 /\ p[1][2] = 0 /\ topo[p].multi)
                => \A f \in 1..MAX_FUNCTION :
                     /\ mmio_addr(PciAddress(0, p[1][1], f), 0) \in probes
                     /\ << << p[1][1], f >> >> \in DOMAIN topo
                            => << << p[1][1], f >> >> \in YieldedPaths

\* ------------------------------------------------------------------------
\* C29: a step that pops frames pops only frames whose device cursor is 31,
\* and goes on popping exactly while the bridge of the frame popped sits at
\* device 31 itself; the cursor is then at (the primary of the last bridge
\* popped, that bridge's own device number + 1, function 0); the register
\* of every bridge popped holds the bus numbers its frame had, and no
\* register is written by the pop.  When the root frame is popped the run
\* is finished.
C29_PopRestoresCursor ==
    [][ Len(stack') < Len(stack)
          => /\ function' = 0
             /\ reg' = reg
             /\ \A i \in (Len(stack') + 1)..Len(stack) :
                    /\ stack[i].device = MAX_DEVICE
                    /\ i > Len(stack') + 1
                          => stack[i].bridge.address.device = MAX_DEVICE
                    /\ ~stack[i].bridge.root
                          => /\ FramePath(accepted, stack[i]) \in BridgePaths(topo)
                             /\ reg'[FramePath(accepted, stack[i])]
                                    = bus_numbers(reg, stack[i].bridge)
             /\ Len(stack') >= 1
                   => /\ stack[Len(stack') + 1].bridge.address.device < MAX_DEVICE
                      /\ address(reg', [stack |-> stack', function |-> function'])
                            = PciAddress(
                                primary_bus_number(reg', stack[Len(stack') + 1].bridge),
                                stack[Len(stack') + 1].bridge.address.device + 1,
                                0)
                      /\ SubSeq(stack', 1, Len(stack') - 1)
                            = SubSeq(stack, 1, Len(stack') - 1)
                      /\ stack'[Len(stack')].bridge = stack[Len(stack')].bridge
             /\ Len(stack') = 0 => is_finish'
      ]_vars

\* a bridge at device 31 of the child bus of a bridge at device 0 has been
\* popped, and the frame of the bridge above it with it; the run goes on at
\* device 1 of the root bus
C29_Witness ==
    /\ Len(accepted) = 2 /\ Len(stack) = 1 /\ ~is_finish
    /\ accepted[1].address = PciAddress(bus_start, 0, 0)
    /\ accepted[2].address.device = MAX_DEVICE
    /\ IsPrefix(accepted[1].path, accepted[2].path)
    /\ stack[1].device = 1 /\ function = 0
    /\ bus_start = 0

\* ------------------------------------------------------------------------
\* C30: a step finishes the run exactly when it pops the root frame or a
\* frame whose bridge's subordinate is bus_max; once the run is finished no
\* function is probed or yielded, and a call returns None only when the run
\* is finished.
C30_DoneOnPop ==
    /\ [][ (is_finish' /\ ~is_finish)
             <=> \E i \in (Len(stack') + 1)..Len(stack) :
                    \/ stack[i].bridge.root
                    \/ subordinate_bus_number(reg, stack[i].bridge) = bus_max
         ]_vars
    /\ [][ is_finish => /\ nprobes' = nprobes
                        /\ yielded' = yielded
                        /\ accepted' = accepted ]_vars
    /\ [](Done => is_finish)

\* the frame of a bridge that took the last bus of the range has been
\* popped: the run is over with the root frame still on the stack
C30_Witness ==
    /\ Done /\ is_finish /\ Len(stack) = 1 /\ stack[1].bridge.root
    /\ Len(accepted) = 1
    /\ reg[accepted[1].path].subordinate = bus_max
    /\ stack[1].device < MAX_DEVICE

\* ------------------------------------------------------------------------
\* C31: when an endpoint whose BAR 0 is a 64-bit memory BAR is reprogrammed,
\* a BAR 0 that held an address above 0 and below 4 GiB is first requested
\* from the 32-bit windows with the BAR's prefetchable flag and, if that
\* request is not satisfied, is requested from the 64-bit windows with the
\* same size and flag; a BAR 0 that held an address at or above 4 GiB is
\* requested from the 64-bit windows.
C31_Low64TriesBoth ==
    [][ Len(requests') > Len(requests)
            => LET n == SubSeq(requests', Len(requests) + 1, Len(requests'))
                   b == parse_bar(Registers(n[1].path).bars)
               IN  b.kind = "Memory64"
                       => /\ (b.data[1].v.hi = 0 /\ b.data[1].v.lo > 0)
                               => /\ n[1].width = 32
                                  /\ n[1].prefetchable = b.data[1].v.prefetchable
                                  /\ ~n[1].result.some
                                       => /\ Len(n) >= 2
                                          /\ n[2].width = 64
                                          /\ n[2].size = b.data[1].v.size
                                          /\ n[2].prefetchable
                                                 = b.data[1].v.prefetchable
                          /\ b.data[1].v.hi > 0 => n[1].width = 64
      ]_vars

\* ------------------------------------------------------------------------
\* the slots of an endpoint that hold an implemented memory BAR (a 64-bit
\* BAR counts once, at its low slot)
MemorySlots(bars) == { i \in 0..5 : bars[i + 1].kind \in {"mem32", "mem64"} }

\* C32: after an endpoint has been yielded in allocate mode with an
\* allocator installed, the requests made for it are as many as its
\* implemented memory BARs, whatever slot they are in and whatever BAR 0
\* is, and every such BAR has a request of its size and its prefetchable
\* flag.
C32_EveryBarAsked ==
    (do_allocate /\ allocator.some) =>
        \A p \in YieldedPaths \cap EndpointPaths(topo) :
            /\ Len(requests_of(p)) = Cardinality(MemorySlots(cfg[p].bars))
            /\ \A i \in MemorySlots(cfg[p].bars) :
                   \E k \in 1..Len(requests_of(p)) :
                       /\ requests_of(p)[k].size = cfg[p].bars[i + 1].size
                       /\ requests_of(p)[k].prefetchable
                              = cfg[p].bars[i + 1].prefetchable

\* ------------------------------------------------------------------------
\* C33: in every state of a walk, whatever the bus range, the function
\* number is at most 7 and the device cursor of every frame at most 31,
\* the address of every vendor-ID read names a bus below 256, a device at
\* most 31 and a function at most 7, and no increment has overflowed (an
\* overflow that is checked is a panic; the subordinate of the top frame,
\* the one tested before it is incremented, is at most bus_max).
C33_CursorInRange ==
    /\ function <= MAX_FUNCTION
    /\ \A i \in 1..Len(stack) : stack[i].device <= MAX_DEVICE
    /\ lastProbe.made
         => /\ lastProbe.address.bus < U8
            /\ lastProbe.address.device <= MAX_DEVICE
            /\ lastProbe.address.function <= MAX_FUNCTION
    /\ stack # << >> => subordinate_bus_number(reg, Top(stack).bridge) <= bus_max
    /\ pc # "panicked"

\* ------------------------------------------------------------------------
\* the bus numbers assigned so far in the run: the root bus and the
\* secondary of every bridge accepted
Assigned == {bus_start} \cup { accepted[k].bus.secondary : k \in 1..Len(accepted) }

\* C34: at every point of an enumeration every frame on the stack, the root
\* frame included, holds the same subordinate, which is the highest bus
\* number assigned so far; so every frame's subordinate is at most bus_max,
\* and the secondaries assigned are pairwise different and differ from the
\* root bus.
C34_OneSubordinate ==
    /\ \A i \in 1..Len(stack) :
           /\ subordinate_bus_number(reg, stack[i].bridge) = Max(Assigned)
           /\ subordinate_bus_number(reg, stack[i].bridge) <= bus_max
    /\ \A k \in 1..Len(accepted) :
           /\ accepted[k].bus.secondary # bus_start
           /\ \A j \in 1..Len(accepted) :
                  accepted[j].bus.secondary = accepted[k].bus.secondary => j = k

\* a bridge is on the stack above another, after a third was accepted and
\* left: three frames, three bus numbers assigned beyond the root bus
C34_Witness ==
    /\ Len(stack) = 3
    /\ Len(accepted) = 3
    /\ subordinate_bus_number(reg, stack[1].bridge) = bus_start + 3

\* ------------------------------------------------------------------------
\* C35: while is_finish is false (the iterator loop goes on to compute a
\* probe address and, for a bridge, to look up its parent) the stack is not
\* empty and its bottom frame, and no other, is the synthetic root frame; a
\* step that empties the stack starts with is_finish false and ends with
\* is_finish true.
C35_RootFrameUntilFinish ==
    /\ [](~is_finish
            => /\ stack # << >>
               /\ stack[1].bridge.root
               /\ \A i \in 2..Len(stack) : ~stack[i].bridge.root)
    /\ [][(stack # << >> /\ stack' = << >>) => (~is_finish /\ is_finish')]_vars

\* the root frame has been popped after bridges were looked up and left
C35_Witness ==
    /\ stack = << >>
    /\ is_finish
    /\ Len(accepted) >= 2
    /\ Len(yielded) >= 1

\* ------------------------------------------------------------------------
\* the prefetchable and the non-prefetchable window of a width
pref_window(w) == IF w = 32 THEN "mem32_pref" ELSE "mem64_pref"
plain_window(w) == IF w = 32 THEN "mem32" ELSE "mem64"

\* C36: a request with prefetchable = true, made while the prefetchable
\* window of its width is installed and cannot serve it, returns None; the
\* only window asked is the prefetchable one, and the non-prefetchable
\* window of that width is after the call what it was before.
C36_NoFallThrough ==
    [][ Len(requests') = Len(requests) + 1
            => LET r == LastRequest(requests')
               IN  (/\ r.prefetchable
                    /\ allocator.v[pref_window(r.width)].some
                    /\ ~allocate(allocator.v[pref_window(r.width)].v,
                                 r.size, r.size)[1].some)
                       => /\ r.result = None
                          /\ r.window = pref_window(r.width)
                          /\ allocator'.v[plain_window(r.width)]
                                 = allocator.v[plain_window(r.width)]
      ]_vars

\* the prefetchable 32-bit window served one request of 16 units and was
\* too full for a second, which returned None although the non-prefetchable
\* 32-bit window is installed and would serve it
C36_Witness ==
    /\ Len(requests) = 2
    /\ requests[1].result.some /\ requests[1].window = "mem32_pref"
    /\ requests[2].prefetchable /\ requests[2].width = 32
    /\ requests[2].size = 16
    /\ requests[2].window = "mem32_pref"
    /\ requests[2].result = None
    /\ allocator.v.mem32.some
    /\ alloc_memory32(allocator.v, 16)[1].some

\* ------------------------------------------------------------------------
\* the configuration slot the entry i (from 1) of a BarVec of kind stands for
slot_of(kind, i) == IF kind = "Memory64" THEN (i - 1) * 2 ELSE i - 1

\* C37: for the BARs of every endpoint, as they are before, during and after
\* the walk: if BAR 0 is unimplemented parse_bar returns an empty sequence;
\* otherwise the vector has the kind of BAR 0 and 3 entries for a 64-bit BAR
\* 0, 6 for a 32-bit or I/O BAR 0, and each entry is the BAR its slot
\* decodes to if that is of the kind of BAR 0 and None if the slot decodes
\* to a BAR of another kind or to none.
C37_SameKindOnly ==
    \A p \in EndpointPaths(topo) :
        IF ~read_bar(cfg[p].bars, 0).some
        THEN parse_bar(cfg[p].bars).data = << >>
        ELSE /\ parse_bar(cfg[p].bars).kind = read_bar(cfg[p].bars, 0).v.kind
             /\ Len(parse_bar(cfg[p].bars).data)
                    = IF read_bar(cfg[p].bars, 0).v.kind = "Memory64" THEN 3 ELSE 6
             /\ \A i \in 1..Len(parse_bar(cfg[p].bars).data) :
                    IF /\ read_bar(cfg[p].bars,
                                   slot_of(parse_bar(cfg[p].bars).kind, i)).some
                       /\ read_bar(cfg[p].bars,
                                   slot_of(parse_bar(cfg[p].bars).kind, i)).v.kind
                              = read_bar(cfg[p].bars, 0).v.kind
                    THEN parse_bar(cfg[p].bars).data[i]
                             = read_bar(cfg[p].bars,
                                        slot_of(parse_bar(cfg[p].bars).kind, i))
                    ELSE parse_bar(cfg[p].bars).data[i] = None

\* an endpoint has been yielded whose BAR 0 is a 64-bit BAR and whose slot 2
\* decodes to a 32-bit BAR, reported as None; and one whose BAR 0 is
\* unimplemented while slot 1 holds a BAR
C37_Witness ==
    \E p \in YieldedPaths \cap EndpointPaths(topo) :
    \E q \in YieldedPaths \cap EndpointPaths(topo) :
        /\ read_bar(cfg[p].bars, 0).some
        /\ read_bar(cfg[p].bars, 0).v.kind = "Memory64"
        /\ read_bar(cfg[p].bars, 2).some
        /\ read_bar(cfg[p].bars, 2).v.kind = "Memory32"
        /\ parse_bar(cfg[p].bars).data[2] = None
        /\ ~read_bar(cfg[q].bars, 0).some
        /\ read_bar(cfg[q].bars, 1).some
        /\ parse_bar(cfg[q].bars).data = << >>

\* ------------------------------------------------------------------------
\* C38: in allocate mode with an allocator installed, once the walk has
\* come to an endpoint whose BAR 0 is an I/O BAR (its command register has
\* been written), the endpoint has been yielded, no request is to its name,
\* no BAR of it has been programmed, and the walk has not panicked.
C38_IoBarSkipped ==
    (do_allocate /\ allocator.some) =>
        \A p \in EndpointPaths(topo) :
            (/\ read_bar(cfg[p].bars, 0).some
             /\ read_bar(cfg[p].bars, 0).v.kind = "Io"
             /\ \E k \in 1..Len(wlog) : wlog[k].path = p)
                => /\ p \in YieldedPaths
                   /\ requests_of(p) = << >>
                   /\ \A k \in 1..Len(wlog) :
                          wlog[k].path = p => wlog[k].why # "program"
                   /\ pc # "panicked"

\* ------------------------------------------------------------------------
\* C39: no update is lost: while an agent is between the read and the write
\* of a read-modify-write, no other agent has written the register it read;
\* and what there is in a register after the agents have finished is what
\* their closures, applied one after the other in some order, make of what
\* firmware left (for the command register: the decode bits are off once
\* the iterator has quiesced the endpoint).
C39_NoLostUpdate ==
    /\ \A a \in Agents : rmw[a].pc = "read" => ~rmw[a].stale
    /\ (/\ \A a \in Agents : rmw[a].pc = "idle"
        /\ \E i \in 1..Len(access) :
               access[i].op = "write" /\ access[i].offset = 4
                   /\ access[i].value = 0)
           => read_volatile(ecam, mmio_addr(PciAddress(1, 0, 0), 4)) = 0

====
